---- MODULE Spec2Model ----
(***************************************************************************)
(* Purchase-to-invoice-to-settlement pipeline of Mechinweb.                *)
(*                                                                         *)
(*   - netlify/functions/zohoWebhook.js : the webhook receiver (handler,   *)
(*     handlePaymentReceived, handleInvoiceStatusChange,                   *)
(*     sendNotificationEmail);                                             *)
(*   - lib/payments.ts (PaymentService.createPaymentIntent,                *)
(*     createZohoInvoice, calculateCurrencyAmounts, logPaymentAttempt).    *)
(*                                                                         *)
(* The datastore is the orders table (a function from the ids of the rows  *)
(* that exist), the invoices table (receipt rows), the notifications table *)
(* and the purchase_audit_log table.  Every `await` of a handler is a      *)
(* step of its own; a single UPDATE or INSERT statement is atomic at the   *)
(* datastore.  Money is counted in thousandths of a currency unit, so that *)
(* toFixed(2) has something to round.  Timestamps (updated_at, due_date)   *)
(* are not modelled.                                                       *)
(***************************************************************************)
EXTENDS Integers, Sequences, FiniteSets, Bags, TLC

VARIABLES
    orders,          \* orders table: order id -> row, for the rows that exist
    invoices,        \* invoices table: receipt rows per order id
    notifications,   \* notifications table: 'Payment Confirmed' rows per order
    emails,          \* payment_confirmation mails accepted by sendEmail, per order
    hooks,           \* webhook invocations in flight: slot -> record
    handled,         \* webhook invocations started so far
    paidTransitions, \* history: times a webhook delivery changed an order's
                     \* status into paid
    calls,           \* createPaymentIntent invocations: call -> record
    extInvoices,     \* invoices held by the invoicing provider: id -> record
                     \* (early, acked: what the provider knows of the
                     \* deliveries of the invoice's payment event)
    auditLog,        \* purchase_audit_log rows: a bag of records
    rateSource,      \* the exchange-rate source during this behaviour
    price,           \* the totalPrice callers pass during this behaviour
    syncs,           \* syncOrderStatus invocations: order id -> record
    services,        \* services table (the catalog): rows, newest first
    deployment,      \* which zoho-integration function answers: the Netlify
                     \* function or the Supabase edge function
    invocations,     \* zoho-integration POST invocations: invocation -> record
    contacts,        \* the provider's contacts: emails, contact_id = position
    zohoInvoices,    \* invoices created by zoho-integration invocations
    serviceMappingCache, \* ServiceManager.serviceMappingCache of one browser
                     \* process: NoCache (null) or a cached alias map
    resolutions,     \* resolveServiceId calls of that process: call -> record
    safeOp           \* the DatabaseErrorHandler.safeUpdate or safeInsert call
                     \* in progress

vars == <<orders, invoices, notifications, emails, hooks, handled,
          paidTransitions, calls, extInvoices, auditLog, rateSource, price,
          syncs, services, deployment, invocations, contacts, zohoInvoices,
          serviceMappingCache, resolutions, safeOp>>

hookVars == <<hooks, handled>>
tableVars == <<invoices, notifications, emails>>
\* what no step of the pipeline changes: what a behaviour fixes for all its
\* purchases, and the DatabaseErrorHandler call, which no component of the
\* pipeline makes
envVars == <<rateSource, price, safeOp>>

purchaseVars == <<calls, extInvoices, auditLog, envVars>>

\* state of the components that are neither the webhook receiver nor
\* createPaymentIntent
zohoVars == <<deployment, invocations, contacts, zohoInvoices>>
resolverVars == <<serviceMappingCache, resolutions>>
otherVars == <<syncs, services, zohoVars, resolverVars>>

----------------------------------------------------------------------------
(* Bounds *)

NumCalls == 2        \* createPaymentIntent invocations, each inserts one order at most
NumHooks == 2        \* webhook invocations running at the same time
MaxHandled == 2      \* webhook invocations over a whole behaviour
NumInvocations == 2  \* zoho-integration POST invocations
NumResolutions == 2  \* resolveServiceId calls in progress at the same time
MaxRetries == 3      \* the largest `retries` a caller passes to safeUpdate, safeInsert

Calls == 1..NumCalls
Hooks == 1..NumHooks
Invocations == 1..NumInvocations
Resolutions == 1..NumResolutions

\* the null of orders.zoho_invoice_id / zoho_customer_id, and "no row"
NoId == 0

\* the ids the datastore and the provider generate are unique; the model
\* names each after the invocation it was generated for, in disjoint ranges
OrderIdOf(c) == c
InvoiceIdOf(c) == NumCalls + c
ContactIdOf(u) == (2 * NumCalls) + u

OrderIds == {OrderIdOf(c) : c \in Calls}

\* invoice ids a webhook event can carry: the ids the provider has issued
\* and one more (a missing or foreign invoice_id) that no order is linked to
EventInvoiceIds == {InvoiceIdOf(c) : c \in Calls} \cup {NoId}

\* provider status strings of an invoice_status_changed event; "void" stands
\* for a string the switch does not list, "undefined" for a missing field
ProviderStatuses == {"paid", "cancelled", "sent", "overdue", "void", "undefined"}

OrderStatuses == {"pending", "paid", "cancelled"}

----------------------------------------------------------------------------
(* zohoWebhook.js *)

\* MapStatus with a default branch that marks the order paid
MapStatusDefaultPaid(status) ==
    CASE status = "overdue"   -> "pending"
      [] status = "cancelled" -> "cancelled"
      [] status = "sent"      -> "pending"
      [] OTHER                -> "paid"

\* the switch of handleInvoiceStatusChange
MapStatus(status) ==
    CASE status = "paid"      -> "paid"
      [] status = "overdue"   -> "pending"
      [] status = "cancelled" -> "cancelled"
      [] status = "sent"      -> "pending"
      [] OTHER                -> "pending"

\* ids of the rows selected by .eq('zoho_invoice_id', invoice_id); a null
\* column equals nothing
MatchInvoice(ords, invoice_id) ==
    {o \in DOMAIN ords : ords[o].zoho_invoice_id # NoId
                         /\ ords[o].zoho_invoice_id = invoice_id}

\* UpdateStatus without its .eq filter: every row is updated
UpdateStatusAll(ords, invoice_id, st) ==
    [o \in DOMAIN ords |-> [ords[o] EXCEPT !.status = st]]

\* .update({status}).eq('zoho_invoice_id', invoice_id): one UPDATE statement
UpdateStatus(ords, invoice_id, st) ==
    [o \in DOMAIN ords |->
        IF o \in MatchInvoice(ords, invoice_id)
        THEN [ords[o] EXCEPT !.status = st]
        ELSE ords[o]]

\* .maybeSingle() in place of .single(): no row is no error
SingleOrNone(rows) ==
    IF Cardinality(rows) = 1
    THEN [data |-> CHOOSE o \in rows : TRUE, error |-> FALSE]
    ELSE [data |-> NoId, error |-> Cardinality(rows) > 1]

\* .single(): the statement's result must be exactly one row, otherwise the
\* client returns data = null and an error (PGRST116)
Single(rows) ==
    IF Cardinality(rows) = 1
    THEN [data |-> CHOOSE o \in rows : TRUE, error |-> FALSE]
    ELSE [data |-> NoId, error |-> TRUE]

\* history of the status changes into paid that webhook deliveries make
CountPaid(ords, newOrds) ==
    [o \in OrderIds |->
        IF o \in DOMAIN ords /\ ords[o].status # "paid" /\ newOrds[o].status = "paid"
        THEN paidTransitions[o] + 1
        ELSE paidTransitions[o]]

IdleHook ==
    [pc |-> "idle", event_type |-> "none", invoice_id |-> NoId, status |-> "none",
     order |-> NoId, clients |-> FALSE, attempted |-> {}, dbError |-> FALSE,
     statusCode |-> 0]

\* the handler's two return statements: 200 after the switch, 500 from catch
Respond(h, code) == [h EXCEPT !.pc = "respond", !.statusCode = code]

\* ReceiptNextPc when the insert's error is thrown instead of logged
ReceiptNextPcThrows(invoiceError) == IF invoiceError THEN "throw" ELSE "notify"

\* where handlePaymentReceived goes after the receipt insert returned
ReceiptNextPc(invoiceError) == "notify"

\* where handlePaymentReceived goes after the notification insert returned
NotificationNextPc(notificationError) == "email"

\* the status code after sendNotificationEmail, which catches its own errors
EmailStatusCode(emailFailed) == 200

\* AfterPaymentUpdate without the throw of orderError
AfterPaymentUpdateUnchecked(h, res, embed) ==
    IF res.data = NoId /\ ~res.error THEN Respond(h, 200)
    ELSE [h EXCEPT !.pc = "receipt", !.order = res.data, !.clients = embed]

\* what handlePaymentReceived does with the result of its update
\*   orderError -> throw; !order -> return; else go on to the receipt
AfterPaymentUpdate(h, res, embed) ==
    IF res.error THEN Respond(h, 500)
    ELSE IF res.data = NoId THEN Respond(h, 200)
    ELSE [h EXCEPT !.pc = "receipt", !.order = res.data, !.clients = embed]

\* the invocation's parsed event
Begin(type, inv, st) ==
    [IdleHook EXCEPT !.event_type = type, !.invoice_id = inv, !.status = st]

\* handler: OPTIONS is answered 200, any other method than POST 405
HandleOtherMethod(d) ==
    /\ hooks[d].pc = "idle" /\ handled < MaxHandled
    /\ \E method \in {"OPTIONS", "GET"} :
          hooks' = [hooks EXCEPT ![d] =
                       Respond(Begin(method, NoId, "none"),
                               IF method = "OPTIONS" THEN 200 ELSE 405)]
    /\ handled' = handled + 1
    /\ UNCHANGED <<orders, tableVars, paidTransitions, purchaseVars, otherVars>>

\* handler: a body that does not parse, or lacks event_type or data, throws
HandleInvalid(d) ==
    /\ hooks[d].pc = "idle" /\ handled < MaxHandled
    /\ hooks' = [hooks EXCEPT ![d] = Respond(Begin("invalid", NoId, "none"), 500)]
    /\ handled' = handled + 1
    /\ UNCHANGED <<orders, tableVars, paidTransitions, purchaseVars, otherVars>>

\* handler: invoice_created and the default branch only log
HandleUnrouted(d) ==
    /\ hooks[d].pc = "idle" /\ handled < MaxHandled
    /\ \E type \in {"invoice_created", "unhandled"}, inv \in EventInvoiceIds :
          hooks' = [hooks EXCEPT ![d] = Respond(Begin(type, inv, "none"), 200)]
    /\ handled' = handled + 1
    /\ UNCHANGED <<orders, tableVars, paidTransitions, purchaseVars, otherVars>>

\* handler -> handleInvoiceStatusChange: map, one UPDATE, respond
HandleStatusChange(d) ==
    /\ hooks[d].pc = "idle" /\ handled < MaxHandled
    /\ \E inv \in EventInvoiceIds, st \in ProviderStatuses, error \in BOOLEAN :
          LET h == Begin("invoice_status_changed", inv, st)
              newOrders == UpdateStatus(orders, inv, MapStatus(st))
          IN  IF error
              THEN /\ hooks' = [hooks EXCEPT ![d] =
                                    Respond([h EXCEPT !.dbError = TRUE], 500)]
                   /\ UNCHANGED <<orders, paidTransitions>>
              ELSE /\ orders' = newOrders
                   /\ paidTransitions' = CountPaid(orders, newOrders)
                   /\ hooks' = [hooks EXCEPT ![d] = Respond(h, 200)]
    /\ handled' = handled + 1
    /\ UNCHANGED <<tableVars, purchaseVars, otherVars>>

\* handler -> handlePaymentReceived, up to the result of its UPDATE
\* (.update({status:'paid'}).eq(...).select('*, clients(*), services(*)').single())
HandlePaymentReceived(d) ==
    /\ hooks[d].pc = "idle" /\ handled < MaxHandled
    /\ \E inv \in EventInvoiceIds, error \in BOOLEAN, embed \in BOOLEAN :
          LET h == Begin("invoice_payment_received", inv, "none")
              newOrders == UpdateStatus(orders, inv, "paid")
              res == Single(MatchInvoice(orders, inv))
          IN  IF error
              THEN /\ hooks' = [hooks EXCEPT ![d] =
                                    Respond([h EXCEPT !.dbError = TRUE], 500)]
                   /\ UNCHANGED <<orders, paidTransitions>>
              ELSE /\ orders' = newOrders
                   /\ paidTransitions' = CountPaid(orders, newOrders)
                   /\ hooks' = [hooks EXCEPT ![d] = AfterPaymentUpdate(h, res, embed)]
    /\ handled' = handled + 1
    /\ UNCHANGED <<tableVars, purchaseVars, otherVars>>

\* one best-effort sub-step of handlePaymentReceived has returned
SubStep(h, step, nextPc) ==
    LET h1 == [h EXCEPT !.attempted = @ \cup {step}]
    IN  IF nextPc = "throw" THEN Respond(h1, 500) ELSE [h1 EXCEPT !.pc = nextPc]

\* supabase.from('invoices').insert([...]); the error is logged
InsertReceipt(d) ==
    /\ hooks[d].pc = "receipt"
    /\ \E invoiceError \in BOOLEAN :
          /\ invoices' = IF invoiceError THEN invoices
                         ELSE [invoices EXCEPT ![hooks[d].order] = @ + 1]
          /\ hooks' = [hooks EXCEPT ![d] =
                          SubStep(@, "receipt", ReceiptNextPc(invoiceError))]
    /\ UNCHANGED <<orders, notifications, emails, handled, paidTransitions, purchaseVars, otherVars>>

\* supabase.from('notifications').insert([...]); the error is logged
InsertNotification(d) ==
    /\ hooks[d].pc = "notify"
    /\ \E notificationError \in BOOLEAN :
          /\ notifications' = IF notificationError THEN notifications
                              ELSE [notifications EXCEPT ![hooks[d].order] = @ + 1]
          /\ hooks' = [hooks EXCEPT ![d] =
                          SubStep(@, "notification",
                                  NotificationNextPc(notificationError))]
    /\ UNCHANGED <<orders, invoices, emails, handled, paidTransitions, purchaseVars, otherVars>>

\* if (order.clients) await sendNotificationEmail(...); then the handler
\* returns 200
SendEmail(d) ==
    /\ hooks[d].pc = "email"
    /\ IF hooks[d].clients
       THEN \E emailFailed \in BOOLEAN :
               /\ emails' = IF emailFailed THEN emails
                            ELSE [emails EXCEPT ![hooks[d].order] = @ + 1]
               /\ hooks' = [hooks EXCEPT ![d] =
                               Respond(SubStep(@, "email", "respond"),
                                       EmailStatusCode(emailFailed))]
       ELSE /\ emails' = emails
            /\ hooks' = [hooks EXCEPT ![d] = Respond(@, 200)]
    /\ UNCHANGED <<orders, invoices, notifications, handled, paidTransitions, purchaseVars, otherVars>>

\* the response leaves; the invocation is over and keeps no state
Return(d) ==
    /\ hooks[d].pc = "respond"
    /\ hooks' = [hooks EXCEPT ![d] = IdleHook]
    /\ UNCHANGED <<orders, tableVars, handled, paidTransitions, purchaseVars, otherVars>>

\* the provider delivers the invoice_payment_received event of an invoice
\* whose event no delivery has been answered 2xx yet; the handler runs
\* handlePaymentReceived up to the result of its UPDATE.  early: the event
\* arrived while no order was linked to the invoice
DeliverPayment(d) ==
    /\ hooks[d].pc = "idle"
    /\ \E inv \in DOMAIN extInvoices, error \in BOOLEAN, embed \in BOOLEAN :
          LET h == Begin("invoice_payment_received", inv, "none")
              newOrders == UpdateStatus(orders, inv, "paid")
              res == Single(MatchInvoice(orders, inv))
          IN  /\ ~extInvoices[inv].acked
              /\ extInvoices' = [extInvoices EXCEPT ![inv].early =
                                     @ \/ MatchInvoice(orders, inv) = {}]
              /\ IF error
                 THEN /\ hooks' = [hooks EXCEPT ![d] =
                                       Respond([h EXCEPT !.dbError = TRUE], 500)]
                      /\ UNCHANGED <<orders, paidTransitions>>
                 ELSE /\ orders' = newOrders
                      /\ paidTransitions' = CountPaid(orders, newOrders)
                      /\ hooks' = [hooks EXCEPT ![d] = AfterPaymentUpdate(h, res, embed)]
    /\ UNCHANGED <<tableVars, handled, calls, auditLog, envVars, otherVars>>

\* the response reaches the provider, which stops redelivering the event
\* after a 2xx
Acknowledge(d) ==
    /\ hooks[d].pc = "respond"
    /\ extInvoices' = [extInvoices EXCEPT ![hooks[d].invoice_id].acked =
                           @ \/ hooks[d].statusCode = 200]
    /\ hooks' = [hooks EXCEPT ![d] = IdleHook]
    /\ UNCHANGED <<orders, tableVars, handled, paidTransitions, calls, auditLog,
                   envVars, otherVars>>

----------------------------------------------------------------------------
(* lib/services.ts : ServiceManager *)

\* what resolveServiceId returns for not-found
Null == "null"

\* strings of the shape uuidRegex accepts (a version 1-5 UUID); "uuid-z" is
\* the id of no service
UuidShaped == {"uuid-a", "uuid-b", "uuid-z"}

uuidRegexNone(identifier) == FALSE

uuidRegex(identifier) == identifier \in UuidShaped

\* the rules of createServiceMapping, in the order of the code, each with the
\* keys it sets
RuleKeys(r) ==
    CASE r = 1 -> {"email-migration", "email_migration", "email-setup"}
      [] r = 2 -> {"email-deliverability", "email_security", "domain-email-security"}
      [] r = 3 -> {"ssl-setup", "ssl_setup", "https-setup"}
      [] r = 4 -> {"cloud-management", "cloud_management", "cloud-suite"}
      [] r = 5 -> {"data-migration", "data_migration", "cloud-data-migration"}
      [] r = 6 -> {"hosting-support", "hosting_support", "control-panel-support"}
      [] r = 7 -> {"acronis-setup", "acronis_setup", "acronis-backup"}
      [] OTHER -> {"per-incident-support", "per_incident_support", "incident-support"}

\* the rules whose name.includes(...) condition a service name satisfies
NameRules(name) ==
    CASE name = "Email Migration & Setup"  -> {1}
      [] name = "SSL & HTTPS Setup"        -> {3}
      [] name = "Email Migration over SSL" -> {1, 3}
      [] OTHER                             -> {}

EmptyMapping == [k \in {} |-> Null]

\* one iteration of services.forEach in createServiceMapping: every rule the
\* name satisfies sets its keys to this service's id
MapService(mapping, service) ==
    LET keys == UNION {RuleKeys(r) : r \in NameRules(service.name)}
    IN  [k \in (DOMAIN mapping) \cup keys |->
            IF k \in keys THEN service.id ELSE mapping[k]]

RECURSIVE MapServices(_, _)
MapServices(mapping, rows) ==
    IF rows = <<>> THEN mapping
    ELSE MapServices(MapService(mapping, Head(rows)), Tail(rows))

\* createServiceMapping when no map is cached: the map built from the rows
\* getAllServices returned, or {} when getAllServices threw
createServiceMapping(rows, listingError) ==
    IF listingError THEN EmptyMapping ELSE MapServices(EmptyMapping, rows)

ResolveUuidRaises(rows, identifier, error) ==
    IF error THEN "raw datastore error"
    ELSE IF \E i \in DOMAIN rows : rows[i].id = identifier THEN identifier
    ELSE Null

\* resolveServiceId, the UUID branch: .eq('id', identifier).maybeSingle()
ResolveUuid(rows, identifier, error) ==
    IF error THEN Null
    ELSE IF \E i \in DOMAIN rows : rows[i].id = identifier THEN identifier
    ELSE Null

\* resolveServiceId, the string branch: mapping[serviceIdentifier]
ResolveAlias(mapping, identifier) ==
    IF identifier \in DOMAIN mapping THEN mapping[identifier] ELSE Null

\* getServiceById: null for an id uuidRegex rejects, else the row of that id
\* (from serviceCache or the table), null when there is none
ServiceById(rows, serviceId) ==
    IF uuidRegex(serviceId) /\ \E i \in DOMAIN rows : rows[i].id = serviceId
    THEN {rows[i] : i \in {j \in DOMAIN rows : rows[j].id = serviceId}}
    ELSE {}

\* the catalog of the purchase scenarios: one service priced for the
\* packages a caller asks for, one priced for basic only
ScenarioCatalog ==
    << [id |-> "uuid-a", name |-> "SSL & HTTPS Setup",
        pricing |-> TRUE, keys |-> {"standard", "premium"}],
       [id |-> "uuid-b", name |-> "Email Migration & Setup",
        pricing |-> TRUE, keys |-> {"basic"}] >>

\* serviceIdentifier values a caller passes: ids, aliases, and two that
\* name no service
Identifiers ==
    {"uuid-a", "uuid-b", "uuid-z", "ssl-setup", "email_migration", "nonexistent-slug"}

\* packageType values a caller passes
PackageTypes == {"standard", "premium"}

----------------------------------------------------------------------------
(* lib/payments.ts : PaymentService *)

Currencies == {"USD", "INR", "AUD"}

\* package tiers the validation trigger accepts
PackageTiers == {"basic", "standard", "enterprise"}

\* totalPrice values callers pass, in thousandths: 10.000, 10.004, 0.004
Prices == {10000, 10004, 4}

\* utils/currency convertCurrency: the rate of one pair, as a fraction
RateNum(from, to) ==
    CASE from = "USD" /\ to = "INR" -> 80
      [] from = "USD" /\ to = "AUD" -> 3
      [] from = "INR" /\ to = "AUD" -> 1
      [] from = "AUD" /\ to = "USD" -> 2
      [] from = "AUD" /\ to = "INR" -> 50
      [] OTHER -> 1

RateDen(from, to) ==
    CASE from = "INR" /\ to = "USD" -> 80
      [] from = "USD" /\ to = "AUD" -> 2
      [] from = "INR" /\ to = "AUD" -> 50
      [] from = "AUD" /\ to = "USD" -> 3
      [] OTHER -> 1

\* a rate source that answers with a quote for AUD that is nearly zero: one
\* unit of any currency for 1/4000 AUD
BadQuoteDen == 4000

\* utils/currency convertCurrency(amount, from, to): the same amount when
\* from = to, the amount unconverted when the rate source is down
convertCurrency(amount, from, to, source) ==
    IF from = to \/ source = "down" THEN amount
    ELSE IF source = "bad quote" /\ to = "AUD" THEN amount \div BadQuoteDen
    ELSE (amount * RateNum(from, to)) \div RateDen(from, to)

\* Number.prototype.toFixed(2) followed by parseFloat, on thousandths
toFixed2(a) ==
    LET r == a % 10 IN IF r >= 5 THEN (a - r) + 10 ELSE a - r

\* what the rate source does while a behaviour lasts: it answers ("up"), it
\* is unavailable and convertCurrency falls back ("down"), or the
\* convertCurrency call rejects ("throws")
RateSources == {"up", "down", "throws"}

\* calculateCurrencyAmounts taking the amount for USD whatever the currency
calculateCurrencyAmountsFromUsd(amount, currency, source) ==
    [usd |-> toFixed2(amount),
     inr |-> toFixed2(convertCurrency(amount, "USD", "INR", source)),
     aud |-> toFixed2(convertCurrency(amount, "USD", "AUD", source))]

\* calculateCurrencyAmounts without its catch: a convertCurrency call that
\* rejects leaves no amounts
calculateCurrencyAmountsNoCatch(amount, currency, source) ==
    IF source = "throws"
    THEN [usd |-> 0, inr |-> 0, aud |-> 0]
    ELSE calculateCurrencyAmountsFromUsd(amount, "USD", source)

\* calculateCurrencyAmounts(amount, currency); a convertCurrency call that
\* rejects is turned by the catch into the unrounded amount for all three
calculateCurrencyAmounts(amount, currency, source) ==
    IF source = "throws" /\ currency \in Currencies
    THEN [usd |-> amount, inr |-> amount, aud |-> amount]
    ELSE LET usd == IF currency \in {"INR", "AUD"}
                    THEN convertCurrency(amount, currency, "USD", source) ELSE amount
             inr == IF currency \in {"USD", "AUD"}
                    THEN convertCurrency(amount, currency, "INR", source) ELSE amount
             aud == IF currency \in {"USD", "INR"}
                    THEN convertCurrency(amount, currency, "AUD", source) ELSE amount
         IN  [usd |-> toFixed2(usd), inr |-> toFixed2(inr), aud |-> toFixed2(aud)]

\* an order inserted as already paid
InsertedStatusPaid == "paid"

\* the status createPaymentIntent inserts an order with
InsertedStatus == "pending"

\* step 6: the row createPaymentIntent inserts
orderData(client_id, serviceId, packageType, amounts, currency) ==
    [client_id |-> client_id, service_id |-> serviceId, package_type |-> packageType,
     amount_usd |-> amounts.usd, amount_inr |-> amounts.inr, amount_aud |-> amounts.aud,
     currency |-> currency, status |-> InsertedStatus,
     zoho_invoice_id |-> NoId, zoho_customer_id |-> NoId]

\* validate_order_data, the BEFORE INSERT OR UPDATE trigger of orders (the
\* service and the client of a call that got this far exist)
validate_order_data(row) ==
    /\ row.package_type \in PackageTiers
    /\ ~(row.amount_usd <= 0 \/ row.amount_inr <= 0)

\* LinkColumns with the two provider ids swapped
LinkColumnsSwapped(row, zohoResult) ==
    [row EXCEPT !.zoho_invoice_id = zohoResult.customer_id,
                !.zoho_customer_id = zohoResult.invoice_id]

\* step 8: the columns the linking update writes
LinkColumns(row, zohoResult) ==
    [row EXCEPT !.zoho_invoice_id = zohoResult.invoice_id,
                !.zoho_customer_id = zohoResult.customer_id]

\* the authenticated user of an invocation, and their provider contact
UserOf(c) == c

\* a call's record: its position, its locals, and what is known of its
\* inputs once the step that reads them has run (user: who called;
\* resolvable: whether serviceIdentifier is the id or an alias of a service;
\* priced: whether the service has a price for packageType)
IdleCall ==
    [pc |-> "idle", user |-> "unknown", resolvable |-> "unknown", priced |-> "unknown",
     serviceId |-> Null, packageType |-> "none", totalPrice |-> 0, currency |-> "none",
     amounts |-> [usd |-> 0, inr |-> 0, aud |-> 0],
     order |-> NoId, inserts |-> 0, zohoRequests |-> 0,
     invoice_id |-> NoId, customer_id |-> NoId, linkFailed |-> FALSE,
     rejected |-> "none", error |-> "none"]

\* a throw inside the try block: the locals of the try block are gone, the
\* catch logs the failed attempt next (what the call did so far, and what is
\* known of its inputs, is kept as history)
Throw(call, err) ==
    [IdleCall EXCEPT !.pc = "failing", !.error = err, !.order = call.order,
                     !.inserts = call.inserts, !.zohoRequests = call.zohoRequests,
                     !.linkFailed = call.linkFailed, !.user = call.user,
                     !.resolvable = call.resolvable, !.priced = call.priced,
                     !.rejected = call.rejected]

\* AuthNextPc when email_confirmed_at is not checked
AuthNextPcUnverified(user) == IF user = "none" THEN "failing" ELSE "resolve"

\* step 1: where createPaymentIntent goes after auth.getUser() returned
AuthNextPc(user) == IF user \in {"none", "unverified"} THEN "failing" ELSE "resolve"

\* ResolveNextPc when the null of resolveServiceId is not checked
ResolveNextPcUnchecked(serviceId) == "service"

\* step 2: where createPaymentIntent goes after resolveServiceId returned
ResolveNextPc(serviceId) == IF serviceId = Null THEN "failing" ELSE "service"

\* PackageNextPc when the pricing of the package is not checked
PackageNextPcUnchecked(service, packageType) == "profile"

\* step 3: where createPaymentIntent goes with the service getServiceById
\* returned
PackageNextPc(service, packageType) ==
    IF ~service.pricing \/ packageType \notin service.keys THEN "failing" ELSE "profile"

\* whether serviceIdentifier is the id of a service or a key of the alias map
\* of the catalog
Resolvable(rows, identifier) ==
    \/ \E i \in DOMAIN rows : rows[i].id = identifier
    \/ identifier \in DOMAIN MapServices(EmptyMapping, rows)

\* InsertNextPc when orderError is not checked
InsertNextPcUnchecked(orderError) == "zoho"

\* InsertNextPc when a failed insert is tried again
InsertNextPcRetry(orderError) == IF orderError THEN "insert" ELSE "zoho"

\* where createPaymentIntent goes after the order insert returned
InsertNextPc(orderError) == IF orderError THEN "failing" ELSE "zoho"

\* LinkNextPc when updateError is thrown instead of logged
LinkNextPcThrows(updateError) == IF updateError THEN "failing" ELSE "audit"

\* where createPaymentIntent goes after the step-8 update returned
LinkNextPc(updateError) == "audit"

\* step 1: supabase.auth.getUser() and the email_confirmed_at check
Authenticate(c) ==
    /\ calls[c].pc = "idle"
    /\ \E user \in {"none", "unverified", "verified"} :
          calls' = [calls EXCEPT ![c] =
              IF AuthNextPc(user) = "failing"
              THEN Throw([@ EXCEPT !.user = user],
                         IF user = "none" THEN "AuthenticationRequired"
                         ELSE "EmailNotVerified")
              ELSE [@ EXCEPT !.pc = AuthNextPc(user), !.user = user]]
    /\ UNCHANGED <<orders, tableVars, hookVars, paidTransitions, extInvoices, auditLog, envVars, otherVars>>

\* step 2: ServiceManager.resolveServiceId(serviceIdentifier), in the
\* browser process of the caller, whose alias map is the one built from the
\* catalog unless the listing fails; error is the failure of the one query
\* the call makes
ResolveService(c) ==
    /\ calls[c].pc = "resolve"
    /\ \E serviceIdentifier \in Identifiers, error \in BOOLEAN :
          LET serviceId ==
                  IF uuidRegex(serviceIdentifier)
                  THEN ResolveUuid(services, serviceIdentifier, error)
                  ELSE ResolveAlias(createServiceMapping(services, error),
                                    serviceIdentifier)
              known == IF Resolvable(services, serviceIdentifier) THEN "yes" ELSE "no"
          IN  calls' = [calls EXCEPT ![c] =
                  IF ResolveNextPc(serviceId) = "failing"
                  THEN Throw([@ EXCEPT !.resolvable = known], "ServiceNotFound")
                  ELSE [@ EXCEPT !.pc = ResolveNextPc(serviceId),
                                 !.resolvable = known, !.serviceId = serviceId]]
    /\ UNCHANGED <<orders, tableVars, hookVars, paidTransitions, extInvoices, auditLog, envVars, otherVars>>

\* step 3: ServiceManager.getServiceById and the pricing check; "premium"
\* is a key a pricing object can carry besides the three tiers.  The lookup
\* finds the row, or the row has gone since step 2, or the query fails and
\* getServiceById throws
ValidatePackage(c) ==
    /\ calls[c].pc = "service"
    /\ \E lookup \in {"found", "gone", "error"}, packageType \in PackageTypes :
          LET found == IF lookup = "found" THEN ServiceById(services, calls[c].serviceId)
                       ELSE {}
          IN  calls' = [calls EXCEPT ![c] =
                  IF lookup = "error" THEN Throw(@, "ServiceLoadFailed")
                  ELSE IF found = {} THEN Throw(@, "ServiceDataNotFound")
                  ELSE LET service == CHOOSE row \in found : TRUE
                           offered == IF service.pricing /\ packageType \in service.keys
                                      THEN "yes" ELSE "no"
                       IN  IF PackageNextPc(service, packageType) = "failing"
                           THEN Throw([@ EXCEPT !.priced = offered], "InvalidPackage")
                           ELSE [@ EXCEPT !.pc = PackageNextPc(service, packageType),
                                          !.priced = offered,
                                          !.packageType = packageType]]
    /\ UNCHANGED <<orders, tableVars, hookVars, paidTransitions, extInvoices, auditLog, envVars, otherVars>>

\* step 4: the clients row of the user
LoadProfile(c) ==
    /\ calls[c].pc = "profile"
    /\ \E profile \in {"error", "null", "row"} :
          calls' = [calls EXCEPT ![c] =
              CASE profile = "error" -> Throw(@, "ProfileLoadFailed")
                [] profile = "null"  -> Throw(@, "ProfileNotFound")
                [] OTHER             -> [@ EXCEPT !.pc = "amounts"]]
    /\ UNCHANGED <<orders, tableVars, hookVars, paidTransitions, extInvoices, auditLog, envVars, otherVars>>

\* step 5: calculateCurrencyAmounts(totalPrice, currency)
CalculateAmounts(c) ==
    /\ calls[c].pc = "amounts"
    /\ \E totalPrice \in {price}, currency \in Currencies :
          calls' = [calls EXCEPT ![c] =
              [@ EXCEPT !.pc = "insert", !.totalPrice = totalPrice, !.currency = currency,
                        !.amounts = calculateCurrencyAmounts(totalPrice, currency, rateSource)]]
    /\ UNCHANGED <<orders, tableVars, hookVars, paidTransitions, extInvoices, auditLog, envVars, otherVars>>

\* step 6: supabase.from('orders').insert([orderData]).select(...).single()
InsertOrder(c) ==
    /\ calls[c].pc = "insert"
    /\ LET row == orderData(UserOf(c), calls[c].serviceId, calls[c].packageType,
                            calls[c].amounts, calls[c].currency)
       IN \E dbError \in BOOLEAN :
            LET orderError == dbError \/ ~validate_order_data(row)
                outcome == IF ~validate_order_data(row) THEN "trigger"
                           ELSE IF dbError THEN "error" ELSE "no"
            IN  /\ orders' = IF orderError THEN orders
                             ELSE orders @@ (OrderIdOf(c) :> row)
                /\ calls' = [calls EXCEPT ![c] =
                      IF InsertNextPc(orderError) = "failing"
                      THEN Throw([@ EXCEPT !.rejected = outcome], "OrderCreationFailed")
                      ELSE [@ EXCEPT !.pc = InsertNextPc(orderError),
                                     !.rejected = outcome,
                                     !.order = IF orderError THEN NoId ELSE OrderIdOf(c),
                                     !.inserts = IF orderError THEN @ ELSE @ + 1]]
    /\ UNCHANGED <<tableVars, hookVars, paidTransitions, extInvoices, auditLog, envVars, otherVars>>

\* step 7: createZohoInvoice, one POST to the zoho-integration function;
\* a response that is not ok, or whose success is false, throws
CreateZohoInvoice(c) ==
    /\ calls[c].pc = "zoho"
    /\ \E response \in {"not_ok", "not_success", "success"} :
          IF response = "success"
          THEN /\ extInvoices' = extInvoices @@ (InvoiceIdOf(c) :>
                     [order |-> calls[c].order, customer_id |-> ContactIdOf(UserOf(c)),
                      status |-> "sent", early |-> FALSE, acked |-> FALSE])
               /\ calls' = [calls EXCEPT ![c] =
                     [@ EXCEPT !.pc = "link", !.zohoRequests = @ + 1,
                               !.invoice_id = InvoiceIdOf(c),
                               !.customer_id = ContactIdOf(UserOf(c))]]
          ELSE /\ extInvoices' = extInvoices
               /\ calls' = [calls EXCEPT ![c] =
                     Throw([@ EXCEPT !.zohoRequests = @ + 1], "ZohoIntegrationFailed")]
    /\ UNCHANGED <<orders, tableVars, hookVars, paidTransitions, auditLog, envVars, otherVars>>

\* step 8 with .eq('service_id', ...) for its filter: a row of the call's
\* service
LinkTargetOfService(call) ==
    CHOOSE o \in DOMAIN orders : orders[o].service_id = call.serviceId

\* step 8: .eq('id', order.id), the row the linking update is aimed at: the
\* row the call's own insert returned
LinkTarget(call) == call.order

\* step 8: the update that writes zoho_invoice_id and zoho_customer_id;
\* its error is logged and not thrown
LinkOrder(c) ==
    /\ calls[c].pc = "link"
    /\ \E updateError \in BOOLEAN :
          /\ orders' = IF updateError THEN orders
                       ELSE [orders EXCEPT ![LinkTarget(calls[c])] = LinkColumns(@, calls[c])]
          /\ calls' = [calls EXCEPT ![c] =
                IF LinkNextPc(updateError) = "failing"
                THEN Throw([@ EXCEPT !.linkFailed = updateError], "OrderUpdateFailed")
                ELSE [@ EXCEPT !.pc = LinkNextPc(updateError), !.linkFailed = updateError]]
    /\ UNCHANGED <<tableVars, hookVars, paidTransitions, extInvoices, auditLog, envVars, otherVars>>

\* logPaymentAttempt: one insert into purchase_audit_log, errors swallowed
logPaymentAttempt(log, transactionId, orderId, action, success, insertFailed) ==
    IF insertFailed THEN log
    ELSE log (+) SetToBag({[transaction_id |-> transactionId, order_id |-> orderId,
                            action |-> action, success |-> success]})

\* step 9 and the return of {...zohoResult, transaction_id}
LogSuccess(c) ==
    /\ calls[c].pc = "audit"
    /\ \E insertFailed \in BOOLEAN :
          auditLog' = logPaymentAttempt(auditLog, c, calls[c].order,
                                        "payment_intent_created", TRUE, insertFailed)
    /\ calls' = [calls EXCEPT ![c].pc = "returned"]
    /\ UNCHANGED <<orders, tableVars, hookVars, paidTransitions, extInvoices, envVars, otherVars>>

\* the catch block: log the failed attempt, rethrow
LogFailure(c) ==
    /\ calls[c].pc = "failing"
    /\ \E insertFailed \in BOOLEAN :
          auditLog' = logPaymentAttempt(auditLog, c, NoId,
                                        "payment_intent_failed", FALSE, insertFailed)
    /\ calls' = [calls EXCEPT ![c].pc = "failed"]
    /\ UNCHANGED <<orders, tableVars, hookVars, paidTransitions, extInvoices, envVars, otherVars>>

----------------------------------------------------------------------------
(* pages/ServicePurchase.tsx : the page's own createPaymentIntent *)

\* selectedPackage values of the page ('basic' is its initial state)
PagePackages == {"basic", "standard"}

\* the page's catch block logs and rethrows; nothing is written
PageThrow(call, err) == [Throw(call, err) EXCEPT !.pc = "page-failed"]

\* where the page's createPaymentIntent goes after auth.getUser() returned:
\* if (!user) throw
PageAuthNextPc(user) == IF user = "none" THEN "page-failed" ELSE "page-profile"

\* const { data: { user } } = await supabase.auth.getUser()
PageAuthenticate(c) ==
    /\ calls[c].pc = "idle"
    /\ \E user \in {"none", "unverified", "verified"} :
          calls' = [calls EXCEPT ![c] =
              IF PageAuthNextPc(user) = "page-failed"
              THEN PageThrow([@ EXCEPT !.user = user], "UserNotAuthenticated")
              ELSE [@ EXCEPT !.pc = PageAuthNextPc(user), !.user = user]]
    /\ UNCHANGED <<orders, tableVars, hookVars, paidTransitions, extInvoices, auditLog,
                   envVars, otherVars>>

\* the clients row of the user, .single(): no row, or an error, is null
PageLoadProfile(c) ==
    /\ calls[c].pc = "page-profile"
    /\ \E clientProfile \in {"null", "row"} :
          calls' = [calls EXCEPT ![c] =
              IF clientProfile = "null" THEN PageThrow(@, "ProfileNotFound")
              ELSE [@ EXCEPT !.pc = "page-amounts"]]
    /\ UNCHANGED <<orders, tableVars, hookVars, paidTransitions, extInvoices, auditLog,
                   envVars, otherVars>>

\* calculateCurrencyAmounts(totalPrice, currency) of the page, for the
\* package selected and the service the page resolved
PageCalculateAmounts(c) ==
    /\ calls[c].pc = "page-amounts"
    /\ \E totalPrice \in {price}, currency \in Currencies, packageType \in PagePackages :
          calls' = [calls EXCEPT ![c] =
              [@ EXCEPT !.pc = "page-insert", !.totalPrice = totalPrice,
                        !.currency = currency, !.packageType = packageType,
                        !.serviceId = services[1].id,
                        !.amounts = calculateCurrencyAmounts(totalPrice, currency, rateSource)]]
    /\ UNCHANGED <<orders, tableVars, hookVars, paidTransitions, extInvoices, auditLog,
                   envVars, otherVars>>

\* supabase.from('orders').insert([...]).select().single(); if (orderError)
\* throw orderError
PageInsertOrder(c) ==
    /\ calls[c].pc = "page-insert"
    /\ LET row == orderData(UserOf(c), calls[c].serviceId, calls[c].packageType,
                            calls[c].amounts, calls[c].currency)
       IN \E dbError \in BOOLEAN :
            LET orderError == dbError \/ ~validate_order_data(row)
            IN  /\ orders' = IF orderError THEN orders
                             ELSE orders @@ (OrderIdOf(c) :> row)
                /\ calls' = [calls EXCEPT ![c] =
                      IF orderError THEN PageThrow(@, "OrderCreationFailed")
                      ELSE [@ EXCEPT !.pc = "page-zoho", !.order = OrderIdOf(c),
                                     !.inserts = @ + 1]]
    /\ UNCHANGED <<tableVars, hookVars, paidTransitions, extInvoices, auditLog,
                   envVars, otherVars>>

\* the POST to the zoho-integration function; a response that is not ok, or
\* whose success is false, throws
PageCreateInvoice(c) ==
    /\ calls[c].pc = "page-zoho"
    /\ \E response \in {"not_ok", "not_success", "success"} :
          IF response = "success"
          THEN /\ extInvoices' = extInvoices @@ (InvoiceIdOf(c) :>
                     [order |-> calls[c].order, customer_id |-> ContactIdOf(UserOf(c)),
                      status |-> "sent", early |-> FALSE, acked |-> FALSE])
               /\ calls' = [calls EXCEPT ![c] =
                     [@ EXCEPT !.pc = "page-link", !.zohoRequests = @ + 1,
                               !.invoice_id = InvoiceIdOf(c),
                               !.customer_id = ContactIdOf(UserOf(c))]]
          ELSE /\ extInvoices' = extInvoices
               /\ calls' = [calls EXCEPT ![c] =
                     PageThrow([@ EXCEPT !.zohoRequests = @ + 1], "PaymentCreationFailed")]
    /\ UNCHANGED <<orders, tableVars, hookVars, paidTransitions, auditLog,
                   envVars, otherVars>>

\* the update that writes zoho_invoice_id and zoho_customer_id; its result is
\* not looked at, and the call returns
PageLinkOrder(c) ==
    /\ calls[c].pc = "page-link"
    /\ \E updateError \in BOOLEAN :
          /\ orders' = IF updateError THEN orders
                       ELSE [orders EXCEPT ![calls[c].order] = LinkColumns(@, calls[c])]
          /\ calls' = [calls EXCEPT ![c] =
                [@ EXCEPT !.pc = "page-returned", !.linkFailed = updateError]]
    /\ UNCHANGED <<tableVars, hookVars, paidTransitions, extInvoices, auditLog,
                   envVars, otherVars>>

----------------------------------------------------------------------------
(* lib/payments.ts : PaymentService.syncOrderStatus *)

IdleSync == [pc |-> "idle", zoho_invoice_id |-> NoId, newStatus |-> "none"]

\* const newStatus = invoiceData.status === 'paid' ? 'paid' : 'pending'
SyncStatus(status) == IF status = "paid" THEN "paid" ELSE "pending"

\* .update({status: newStatus}).eq('id', orderId): one UPDATE statement
UpdateStatusById(ords, orderId, st) ==
    [o \in DOMAIN ords |->
        IF o = orderId THEN [ords[o] EXCEPT !.status = st] ELSE ords[o]]

\* syncOrderStatus(orderId) is called and issues its select
SyncOrderStatus(o) ==
    /\ syncs[o].pc = "idle"
    /\ syncs' = [syncs EXCEPT ![o] = [IdleSync EXCEPT !.pc = "select"]]
    /\ UNCHANGED <<orders, tableVars, hookVars, paidTransitions, purchaseVars, services, zohoVars, resolverVars>>

\* .select('zoho_invoice_id').eq('id', orderId).single() has returned:
\* if (order?.zoho_invoice_id) the invoice is fetched, otherwise the call is
\* over
SyncSelected(o) ==
    /\ syncs[o].pc = "select"
    /\ \E dbError \in BOOLEAN :
          LET res == Single({x \in DOMAIN orders : x = o})
              id == IF dbError \/ res.error THEN NoId ELSE orders[res.data].zoho_invoice_id
          IN  syncs' = [syncs EXCEPT ![o] =
                  IF id # NoId THEN [@ EXCEPT !.pc = "fetch", !.zoho_invoice_id = id]
                  ELSE IdleSync]
    /\ UNCHANGED <<orders, tableVars, hookVars, paidTransitions, purchaseVars, services, zohoVars, resolverVars>>

\* the fetch of .../zoho-integration/invoices/<id> has returned; a response
\* that is not ok, or a fetch that throws, ends the call
SyncFetched(o) ==
    /\ syncs[o].pc = "fetch"
    /\ \E ok \in BOOLEAN, status \in ProviderStatuses :
          syncs' = [syncs EXCEPT ![o] =
              IF ok THEN [@ EXCEPT !.pc = "update", !.newStatus = SyncStatus(status)]
              ELSE IdleSync]
    /\ UNCHANGED <<orders, tableVars, hookVars, paidTransitions, purchaseVars, services, zohoVars, resolverVars>>

\* the update of orders.status; its result is not looked at
SyncUpdated(o) ==
    /\ syncs[o].pc = "update"
    /\ \E dbError \in BOOLEAN :
          orders' = IF dbError THEN orders
                    ELSE UpdateStatusById(orders, o, syncs[o].newStatus)
    /\ syncs' = [syncs EXCEPT ![o] = IdleSync]
    /\ UNCHANGED <<tableVars, hookVars, paidTransitions, purchaseVars, services, zohoVars, resolverVars>>

----------------------------------------------------------------------------
(* The zoho-integration function: netlify/functions/zohoIntegration.js and
   the Supabase edge function of the same name, POST flow *)

Deployments == {"netlify", "edge"}

\* customerData.email of the requests
Emails == {"a@example.com", "b@example.com"}

\* request bodies: complete ones, one whose customerData has no email, one
\* whose serviceItems is []
Requests == {"valid", "no_email", "no_items"}

\* the statuses of the provider's error responses; "timeout" is a request
\* that got no response
ErrorStatuses == {"400", "401", "500", "timeout"}

\* the message in the body of a provider's error response
Bodies == {"already exists", "invalid value"}

\* the provider's error responses: status and body
ErrorResponses ==
    {r \in [status : ErrorStatuses, body : Bodies \cup {"none"}] :
        r.body = "none" <=> r.status = "timeout"}

\* error.message of the Error an invocation ends with: the fixed text, and
\* the status and the body where the text has them
ErrorText(text, status, body) == [text |-> text, status |-> status, body |-> body]
NoError == ErrorText("none", "none", "none")

\* getZohoAccessToken, the Error thrown for a token response that is not a
\* token.  Netlify: own texts for 400 and 401, else axios' error.message
\* (which names the status, or the timeout).  Edge: status and body for every
\* response that is not ok; a fetch that got no response throws its own error
TokenError(deployed, r) ==
    IF deployed = "netlify"
    THEN IF r.status = "400" THEN ErrorText("Invalid Zoho credentials", "none", "none")
         ELSE IF r.status = "401" THEN ErrorText("Zoho refresh token expired", "none", "none")
         ELSE ErrorText("Zoho token request failed", r.status, "none")
    ELSE IF r.status = "timeout" THEN ErrorText("fetch failed", "none", "none")
         ELSE ErrorText("Token request failed", r.status, r.body)

\* text: error.response?.data?.message || error.message (Netlify);
\* text: status errorText (edge)
ProviderError(deployed, text, r) ==
    IF deployed = "netlify"
    THEN IF r.body # "none" THEN ErrorText(text, "none", r.body)
         ELSE ErrorText(text, r.status, "none")
    ELSE IF r.status = "timeout" THEN ErrorText("fetch failed", "none", "none")
         ELSE ErrorText(text, r.status, r.body)

\* createZohoCustomer, what follows an answer to POST /contacts that is not a
\* contact: the lookup by email, or the throw.  Netlify looks up on a 400
\* whose message includes 'already exists', the edge function on every 400
CustomerNextPc(deployed, r) ==
    IF r.status = "400" /\ (deployed = "edge" \/ r.body = "already exists")
    THEN "lookup" ELSE "responded"

\* the Error of findZohoCustomer for a response that is not a list of
\* contacts.  Netlify wraps error.message, the edge function gives status and
\* body
LookupError(deployed, r) ==
    IF deployed = "netlify" THEN ErrorText("Customer lookup failed", r.status, "none")
    ELSE IF r.status = "timeout" THEN ErrorText("fetch failed", "none", "none")
    ELSE ErrorText("Customer search failed", r.status, r.body)

\* the Error of findZohoCustomer for an empty list of contacts
NotFoundError(deployed) ==
    IF deployed = "netlify" THEN ErrorText("Customer lookup failed", "not found", "none")
    ELSE ErrorText("Customer not found", "none", "none")

\* contacts[0] of GET /contacts?email=...: the contact_id of the first
\* contact with the email, NoId for an empty list
FirstContactOfAll(list, email) == IF list # <<>> THEN 1 ELSE NoId

FirstContact(list, email) ==
    IF \E k \in DOMAIN list : list[k] = email
    THEN CHOOSE k \in DOMAIN list :
            list[k] = email /\ \A j \in DOMAIN list : list[j] = email => k <= j
    ELSE NoId

\* the handler's checks of a POST body before the customer is created.
\* Netlify: customerData.email and name, serviceItems.length.  Edge: only
\* that customerData, serviceItems and currency are there
RequestError(deployed, request) ==
    IF deployed = "netlify" /\ request = "no_email"
    THEN ErrorText("Customer email and name are required", "none", "none")
    ELSE IF deployed = "netlify" /\ request = "no_items"
    THEN ErrorText("At least one service item is required", "none", "none")
    ELSE NoError

IdleInvocation ==
    [pc |-> "idle", email |-> Null, request |-> "none",
     tokenRequests |-> 0, customerPosts |-> 0, lookups |-> 0, invoicePosts |-> 0,
     creation |-> "none", customer |-> NoId,
     failure |-> [step |-> "none", status |-> "none"],
     response |-> [statusCode |-> "none", success |-> FALSE, error |-> NoError]]

\* the handler's catch: 500 with success false and error: error.message
Fail(inv, step, status, err) ==
    [inv EXCEPT !.pc = "responded",
                !.failure = [step |-> step, status |-> status],
                !.response = [statusCode |-> "500", success |-> FALSE, error |-> err]]

appVars == <<orders, tableVars, hookVars, paidTransitions, purchaseVars, syncs, services,
             resolverVars>>

\* a POST arrives: validateZohoConfig passes and the token is requested
Invoke(i) ==
    /\ invocations[i].pc = "idle"
    /\ invocations' = [invocations EXCEPT ![i].pc = "token"]
    /\ UNCHANGED <<appVars, deployment, contacts, zohoInvoices>>

\* getZohoAccessToken has its answer; with a token the handler checks the
\* request body and goes on to createZohoCustomer
GetZohoAccessToken(i) ==
    /\ invocations[i].pc = "token"
    /\ LET inv == [invocations[i] EXCEPT !.tokenRequests = @ + 1]
       IN  \/ \E r \in ErrorResponses :
                 invocations' = [invocations EXCEPT ![i] =
                     Fail(inv, "token", r.status, TokenError(deployment, r))]
           \/ \E email \in Emails, request \in Requests :
                 LET req == [inv EXCEPT !.request = request,
                                        !.email = IF request = "no_email" THEN Null
                                                  ELSE email]
                     bad == RequestError(deployment, request)
                 IN  invocations' = [invocations EXCEPT ![i] =
                         IF bad # NoError THEN Fail(req, "request", "none", bad)
                         ELSE [req EXCEPT !.pc = "customer"]]
    /\ UNCHANGED <<appVars, deployment, contacts, zohoInvoices>>

\* createZohoCustomer: POST /contacts has its answer.  The provider creates
\* the contact unless it has one with this email, and says 'already exists'
\* only if it has one
CreateZohoCustomer(i) ==
    /\ invocations[i].pc = "customer"
    /\ LET inv == [invocations[i] EXCEPT !.customerPosts = @ + 1]
           known == FirstContact(contacts, inv.email) # NoId
       IN  \/ /\ ~known
              /\ contacts' = Append(contacts, inv.email)
              /\ invocations' = [invocations EXCEPT ![i] =
                    [inv EXCEPT !.pc = "invoice", !.creation = "created",
                                !.customer = Len(contacts) + 1]]
           \/ /\ \E r \in ErrorResponses :
                    /\ (r.status = "400" /\ r.body = "already exists") => known
                    /\ LET outcome == IF r.status = "400" /\ r.body = "already exists"
                                      THEN "duplicate" ELSE r.status
                       IN  invocations' = [invocations EXCEPT ![i] =
                              IF CustomerNextPc(deployment, r) = "lookup"
                              THEN [inv EXCEPT !.pc = "lookup", !.creation = outcome]
                              ELSE Fail([inv EXCEPT !.creation = outcome], "customer", r.status,
                                        ProviderError(deployment, "Customer creation failed", r))]
              /\ contacts' = contacts
    /\ UNCHANGED <<appVars, deployment, zohoInvoices>>

\* findZohoCustomer: GET /contacts?email= has its answer
FindZohoCustomer(i) ==
    /\ invocations[i].pc = "lookup"
    /\ LET inv == [invocations[i] EXCEPT !.lookups = @ + 1]
           found == FirstContact(contacts, inv.email)
       IN  \/ invocations' = [invocations EXCEPT ![i] =
                 IF found = NoId
                 THEN Fail(inv, "lookup", "200", NotFoundError(deployment))
                 ELSE [inv EXCEPT !.pc = "invoice", !.customer = found]]
           \/ \E r \in ErrorResponses :
                 invocations' = [invocations EXCEPT ![i] =
                     Fail(inv, "lookup", r.status, LookupError(deployment, r))]
    /\ UNCHANGED <<appVars, deployment, contacts, zohoInvoices>>

\* createZohoInvoice(accessToken, customer.contact_id, ...): POST /invoices
\* has its answer, and the handler responds
ZohoCreateInvoice(i) ==
    /\ invocations[i].pc = "invoice"
    /\ LET inv == [invocations[i] EXCEPT !.invoicePosts = @ + 1]
       IN  \/ /\ zohoInvoices' = zohoInvoices \cup
                                   {[by |-> i, customer_id |-> inv.customer]}
              /\ invocations' = [invocations EXCEPT ![i] =
                    [inv EXCEPT !.pc = "responded",
                                !.response = [statusCode |-> "200", success |-> TRUE,
                                              error |-> NoError]]]
           \/ /\ \E r \in ErrorResponses :
                    invocations' = [invocations EXCEPT ![i] =
                        Fail(inv, "invoice", r.status,
                             ProviderError(deployment, "Invoice creation failed", r))]
              /\ zohoInvoices' = zohoInvoices
    /\ UNCHANGED <<appVars, deployment, contacts>>

\* PaymentService.createZohoInvoice, the message of the Error it throws for a
\* response of the function that is not ok: the status and the whole response
\* text, in which the function put its error.message
createZohoInvoiceMessage(response) ==
    [text |-> "Zoho integration failed", status |-> response.statusCode,
     errorText |-> response.error]

----------------------------------------------------------------------------
(* lib/services.ts : ServiceManager.resolveServiceId with its cache *)

\* a services row with the columns the resolver reads
Row(id, name) == [id |-> id, name |-> name, pricing |-> TRUE, keys |-> {"basic"}]

\* catalogs, newest row first.  Ids uuidRegex accepts ("uuid-a", "uuid-b"),
\* a UUID of a version the regex rejects ("nil-uuid"), and the text ids the
\* migration 20250923105334 assigns ("ssl-setup", "service-custom")
Catalogs ==
    { ScenarioCatalog,
      << Row("uuid-a", "Email Migration over SSL") >>,
      << Row("nil-uuid", "SSL & HTTPS Setup"), Row("uuid-b", "Email Migration & Setup") >>,
      << Row("ssl-setup", "SSL & HTTPS Setup"), Row("service-custom", "Custom Service") >> }

\* serviceIdentifier values given to resolveServiceId
ResolveIdentifiers ==
    {"uuid-a", "uuid-z", "ssl-setup", "service-custom"}

\* serviceMappingCache = null, and serviceMappingCache = mapping (which is
\* truthy even for {})
\* stale is history: the services table changed after the map was built
NoCache == [cached |-> FALSE, mapping |-> EmptyMapping, stale |-> FALSE]

CachedEmpty(mapping) == [cached |-> TRUE, mapping |-> EmptyMapping, stale |-> FALSE]

Cached(mapping) == [cached |-> TRUE, mapping |-> mapping, stale |-> FALSE]

\* createServiceMapping caching the {} its catch returns
CacheAfterBuildAlways(cache, mapping, listingError) == Cached(mapping)

\* createServiceMapping: `this.serviceMappingCache = mapping` is inside the
\* try, after the listing; when the listing threw, the catch returns {} and
\* the cache is left as it was
CacheAfterBuild(cache, mapping, listingError) ==
    IF listingError THEN cache ELSE Cached(mapping)

\* the ids of the rows of a catalog
CatalogIds(rows) == {rows[k].id : k \in DOMAIN rows}

IdleResolution ==
    [pc |-> "idle", identifier |-> Null, result |-> Null, error |-> FALSE,
     changed |-> FALSE, viaMapping |-> FALSE, clearedAfter |-> FALSE]

\* resolveServiceId(serviceIdentifier) is called.  A UUID-shaped identifier
\* is looked up in services; any other goes to createServiceMapping, which
\* returns the cached map if there is one and lists the services otherwise
ResolveServiceId(r) ==
    /\ resolutions[r].pc = "idle"
    /\ \E serviceIdentifier \in ResolveIdentifiers :
          resolutions' = [resolutions EXCEPT ![r] =
              IF uuidRegex(serviceIdentifier)
              THEN [@ EXCEPT !.pc = "lookup", !.identifier = serviceIdentifier]
              ELSE IF serviceMappingCache.cached
              THEN [@ EXCEPT !.pc = "done", !.identifier = serviceIdentifier,
                             !.viaMapping = TRUE,
                             !.changed = serviceMappingCache.stale,
                             !.result = ResolveAlias(serviceMappingCache.mapping,
                                                     serviceIdentifier)]
              ELSE [@ EXCEPT !.pc = "listing", !.identifier = serviceIdentifier,
                             !.viaMapping = TRUE]]
    /\ UNCHANGED <<orders, tableVars, hookVars, paidTransitions, purchaseVars, syncs,
                   services, zohoVars, serviceMappingCache>>

\* .eq('id', serviceIdentifier).maybeSingle() has returned
LookupReturned(r) ==
    /\ resolutions[r].pc = "lookup"
    /\ \E error \in BOOLEAN :
          resolutions' = [resolutions EXCEPT ![r] =
              [@ EXCEPT !.pc = "done", !.error = error,
                        !.result = ResolveUuid(services, resolutions[r].identifier, error)]]
    /\ UNCHANGED <<orders, tableVars, hookVars, paidTransitions, purchaseVars, syncs,
                   services, zohoVars, serviceMappingCache>>

\* getAllServices has returned to createServiceMapping: the map is built and
\* cached, or, when the listing threw, {} is returned and nothing is cached
ListingReturned(r) ==
    /\ resolutions[r].pc = "listing"
    /\ \E listingError \in BOOLEAN :
          LET mapping == createServiceMapping(services, listingError)
          IN  /\ serviceMappingCache' =
                    CacheAfterBuild(serviceMappingCache, mapping, listingError)
              /\ resolutions' = [resolutions EXCEPT ![r] =
                    [@ EXCEPT !.pc = "done", !.error = listingError,
                              !.changed = FALSE,
                              !.result = ResolveAlias(mapping, resolutions[r].identifier)]]
    /\ UNCHANGED <<orders, tableVars, hookVars, paidTransitions, purchaseVars, syncs,
                   services, zohoVars>>

\* the caller has the result
ResolveReturned(r) ==
    /\ resolutions[r].pc = "done"
    /\ resolutions' = [resolutions EXCEPT ![r] = IdleResolution]
    /\ UNCHANGED <<orders, tableVars, hookVars, paidTransitions, purchaseVars, syncs,
                   services, zohoVars, serviceMappingCache>>

\* ServiceManager.clearCache(); the calls that have their result are marked
\* as made before a clear
clearCache ==
    /\ serviceMappingCache' = NoCache
    /\ resolutions' = [r \in Resolutions |->
          IF resolutions[r].pc = "done"
          THEN [resolutions[r] EXCEPT !.clearedAfter = TRUE]
          ELSE resolutions[r]]
    /\ UNCHANGED <<orders, tableVars, hookVars, paidTransitions, purchaseVars, syncs,
                   services, zohoVars>>

\* an administrator changes the services table; the calls in progress and
\* the cached map are marked as older than the change
ChangeCatalog ==
    /\ \E rows \in Catalogs \ {services} : services' = rows
    /\ resolutions' = [r \in Resolutions |->
          IF resolutions[r].pc = "idle" THEN resolutions[r]
          ELSE [resolutions[r] EXCEPT !.changed = TRUE]]
    /\ serviceMappingCache' = IF serviceMappingCache.cached
                              THEN [serviceMappingCache EXCEPT !.stale = TRUE]
                              ELSE serviceMappingCache
    /\ UNCHANGED <<orders, tableVars, hookVars, paidTransitions, purchaseVars, syncs,
                   zohoVars>>

----------------------------------------------------------------------------
(* utils/databaseErrorHandler.ts : DatabaseErrorHandler *)

\* the `retries` argument (2 when it is left out)
Retries == 0..MaxRetries

\* datastore errors, by what error.message includes and whether error.code
\* is PGRST301
DbError(fragments, pgrst301) == [message |-> fragments, pgrst301 |-> pgrst301]

DbErrors ==
    { DbError({"RI_ConstraintTrigger"}, FALSE),
      DbError({"does not exist", "column"}, FALSE),
      DbError({"does not exist"}, FALSE),
      DbError({"permission denied"}, FALSE),
      DbError({"connection"}, FALSE),
      DbError({}, TRUE),
      DbError({"row-level security"}, FALSE),
      DbError({"row-level security", "connection"}, FALSE),
      DbError({}, FALSE) }

\* handleDatabaseError with canRetry true in every branch
handleDatabaseErrorRetryAll(error) ==
    [canRetry |-> TRUE,
     errorType |->
        IF "RI_ConstraintTrigger" \in error.message THEN "SYSTEM_TRIGGER"
        ELSE IF {"does not exist", "column"} \subseteq error.message THEN "MISSING_COLUMN"
        ELSE IF "permission denied" \in error.message THEN "PERMISSION_DENIED"
        ELSE IF "connection" \in error.message \/ error.pgrst301 THEN "CONNECTION_ERROR"
        ELSE IF "row-level security" \in error.message THEN "RLS_VIOLATION"
        ELSE "GENERIC_DB_ERROR"]

\* handleDatabaseError(error): the first branch whose test the error passes
handleDatabaseError(error) ==
    IF "RI_ConstraintTrigger" \in error.message
    THEN [canRetry |-> FALSE, errorType |-> "SYSTEM_TRIGGER"]
    ELSE IF {"does not exist", "column"} \subseteq error.message
    THEN [canRetry |-> FALSE, errorType |-> "MISSING_COLUMN"]
    ELSE IF "permission denied" \in error.message
    THEN [canRetry |-> FALSE, errorType |-> "PERMISSION_DENIED"]
    ELSE IF "connection" \in error.message \/ error.pgrst301
    THEN [canRetry |-> TRUE, errorType |-> "CONNECTION_ERROR"]
    ELSE IF "row-level security" \in error.message
    THEN [canRetry |-> FALSE, errorType |-> "RLS_VIOLATION"]
    ELSE [canRetry |-> TRUE, errorType |-> "GENERIC_DB_ERROR"]

\* a safeUpdate or safeInsert call: the loop variable, and as history the
\* datastore requests made, the class of the error the first request
\* returned and the class of the last error returned
IdleSafeOp ==
    [pc |-> "idle", operation |-> "none", retries |-> 0, attempt |-> 0,
     requests |-> 0, firstError |-> "none", lastError |-> "none",
     success |-> "none", error |-> "none"]

\* return {success: false, error}
SafeFailure(op, error) ==
    [op EXCEPT !.pc = "returned", !.success = "false", !.error = error]

\* the test of the for loop, with the return that follows the loop
SafeLoop(op) ==
    IF op.attempt <= op.retries THEN [op EXCEPT !.pc = "attempt"]
    ELSE SafeFailure(op, "Maximum retry attempts exceeded")

\* safeUpdate(table, updates, filter, retries) or safeInsert(table, data,
\* retries) is called
SafeCall ==
    /\ safeOp.pc = "idle"
    /\ \E operation \in {"safeUpdate", "safeInsert"}, retries \in Retries :
          safeOp' = SafeLoop([IdleSafeOp EXCEPT !.operation = operation,
                                               !.retries = retries, !.attempt = 1])
    /\ UNCHANGED <<orders, tableVars, hookVars, paidTransitions, calls, extInvoices,
                   auditLog, rateSource, price, otherVars>>

\* the awaited request of an attempt is over: the datastore returned rows,
\* or returned an error, or the client threw
SafeAttempt ==
    /\ safeOp.pc = "attempt"
    /\ LET op == [safeOp EXCEPT !.requests = @ + 1]
       IN  \/ safeOp' = [op EXCEPT !.pc = "returned", !.success = "true"]
           \/ \E error \in DbErrors :
                 LET errorInfo == handleDatabaseError(error)
                     seen == [op EXCEPT !.lastError = errorInfo.errorType,
                                        !.firstError = IF op.requests = 1
                                                       THEN errorInfo.errorType ELSE @]
                 IN  safeOp' =
                        IF ~errorInfo.canRetry \/ op.attempt = op.retries
                        THEN SafeFailure(seen, errorInfo.errorType)
                        ELSE [seen EXCEPT !.pc = "wait"]
           \/ safeOp' =
                 IF op.attempt = op.retries
                 THEN SafeFailure(op, "Database operation failed after multiple attempts")
                 ELSE SafeLoop([op EXCEPT !.attempt = @ + 1])
    /\ UNCHANGED <<orders, tableVars, hookVars, paidTransitions, calls, extInvoices,
                   auditLog, rateSource, price, otherVars>>

\* the wait of 2^attempt seconds before a retry is over: continue
SafeWaited ==
    /\ safeOp.pc = "wait"
    /\ safeOp' = SafeLoop([safeOp EXCEPT !.attempt = @ + 1])
    /\ UNCHANGED <<orders, tableVars, hookVars, paidTransitions, calls, extInvoices,
                   auditLog, rateSource, price, otherVars>>

\* the caller has the result
SafeReturned ==
    /\ safeOp.pc = "returned"
    /\ safeOp' = IdleSafeOp
    /\ UNCHANGED <<orders, tableVars, hookVars, paidTransitions, calls, extInvoices,
                   auditLog, rateSource, price, otherVars>>

\* no safeUpdate or safeInsert call yet
SafeIdle == safeOp = IdleSafeOp

----------------------------------------------------------------------------
(* Specifications *)

ZeroCounts == [o \in OrderIds |-> 0]

EmptyTable == [id \in {} |-> NoId]

\* the pipeline from an empty orders table
\* a process that has resolved nothing yet
ResolverIdle ==
    /\ serviceMappingCache = NoCache
    /\ resolutions = [r \in Resolutions |-> IdleResolution]

\* no zoho-integration invocation yet, and a provider that has the contact
\* of an earlier customer
ZohoIdle ==
    /\ invocations = [i \in Invocations |-> IdleInvocation]
    /\ contacts = <<"earlier@example.com">>
    /\ zohoInvoices = {}

Init ==
    /\ orders = EmptyTable
    /\ invoices = ZeroCounts /\ notifications = ZeroCounts /\ emails = ZeroCounts
    /\ hooks = [d \in Hooks |-> IdleHook]
    /\ handled = 0
    /\ paidTransitions = ZeroCounts
    /\ calls = [c \in Calls |-> IdleCall]
    /\ extInvoices = EmptyTable
    /\ auditLog = EmptyBag
    /\ rateSource \in RateSources
    /\ price \in Prices
    /\ syncs = [o \in OrderIds |-> IdleSync]
    /\ services = ScenarioCatalog
    /\ deployment = "edge"
    /\ ZohoIdle
    /\ SafeIdle
    /\ ResolverIdle

WebhookNext ==
    \E d \in Hooks :
        \/ HandleOtherMethod(d)
        \/ HandleInvalid(d)
        \/ HandleUnrouted(d)
        \/ HandleStatusChange(d)
        \/ HandlePaymentReceived(d)
        \/ InsertReceipt(d)
        \/ InsertNotification(d)
        \/ SendEmail(d)
        \/ Return(d)

PaymentNext ==
    \E d \in Hooks :
        \/ HandlePaymentReceived(d)
        \/ InsertReceipt(d)
        \/ InsertNotification(d)
        \/ SendEmail(d)
        \/ Return(d)

StatusNext ==
    \E d \in Hooks :
        \/ HandleStatusChange(d)
        \/ Return(d)

PurchaseNext ==
    \E c \in Calls :
        \/ Authenticate(c)
        \/ ResolveService(c)
        \/ ValidatePackage(c)
        \/ LoadProfile(c)
        \/ CalculateAmounts(c)
        \/ InsertOrder(c)
        \/ CreateZohoInvoice(c)
        \/ LinkOrder(c)
        \/ LogSuccess(c)
        \/ LogFailure(c)

PageNext ==
    \E c \in Calls :
        \/ PageAuthenticate(c)
        \/ PageLoadProfile(c)
        \/ PageCalculateAmounts(c)
        \/ PageInsertOrder(c)
        \/ PageCreateInvoice(c)
        \/ PageLinkOrder(c)

InvoicingNext ==
    \E i \in Invocations :
        \/ Invoke(i)
        \/ GetZohoAccessToken(i)
        \/ CreateZohoCustomer(i)
        \/ FindZohoCustomer(i)
        \/ ZohoCreateInvoice(i)

ResolveNext ==
    \/ \E r \in Resolutions :
          \/ ResolveServiceId(r)
          \/ LookupReturned(r)
          \/ ListingReturned(r)
          \/ ResolveReturned(r)
    \/ clearCache
    \/ ChangeCatalog

SyncNext ==
    \E o \in OrderIds :
        \/ SyncOrderStatus(o)
        \/ SyncSelected(o)
        \/ SyncFetched(o)
        \/ SyncUpdated(o)

SafeNext == SafeCall \/ SafeAttempt \/ SafeWaited \/ SafeReturned

Next == PurchaseNext \/ PageNext \/ WebhookNext \/ SyncNext \/ InvoicingNext
            \/ ResolveNext \/ SafeNext

Spec == Init /\ [][Next]_vars

\* an order as createPaymentIntent leaves it: the scenario purchase
\* (standard tier, 10.000 USD), linked to the invoice of the same number
\* or left unlinked by a failed step 8
PlacedOrder(c, linked) ==
    LET row == orderData(UserOf(c), "uuid-a", "standard",
                         calculateCurrencyAmounts(10000, "USD", "up"), "USD")
    IN  IF linked
        THEN LinkColumns(row, [invoice_id |-> InvoiceIdOf(c),
                               customer_id |-> ContactIdOf(UserOf(c))])
        ELSE row

\* the webhook receiver over the orders earlier purchases have left: order 1
\* is linked to invoice 1, every further order is linked or not
WebhookInit ==
    /\ \E linked \in [Calls -> BOOLEAN] :
          /\ linked[1]
          /\ orders = [o \in OrderIds |->
                          LET c == CHOOSE c \in Calls : OrderIdOf(c) = o
                          IN  PlacedOrder(c, linked[c])]
    /\ invoices = ZeroCounts /\ notifications = ZeroCounts /\ emails = ZeroCounts
    /\ hooks = [d \in Hooks |-> IdleHook]
    /\ handled = 0
    /\ paidTransitions = ZeroCounts
    /\ calls = [c \in Calls |-> IdleCall]
    /\ extInvoices = [i \in {InvoiceIdOf(c) : c \in Calls} |->
                         LET c == CHOOSE c \in Calls : InvoiceIdOf(c) = i
                         IN  [order |-> OrderIdOf(c),
                              customer_id |-> ContactIdOf(UserOf(c)), status |-> "sent",
                              early |-> FALSE, acked |-> FALSE]]
    /\ auditLog = EmptyBag
    /\ rateSource = "up"
    /\ price = 10000
    /\ syncs = [o \in OrderIds |-> IdleSync]
    /\ services = ScenarioCatalog
    /\ deployment = "edge"
    /\ ZohoIdle
    /\ SafeIdle
    /\ ResolverIdle

WebhookSpec == WebhookInit /\ [][WebhookNext]_vars

\* the webhook receiver when the provider sends invoice_payment_received only
PaymentSpec == WebhookInit /\ [][PaymentNext]_vars

\* the webhook receiver when the provider sends invoice_status_changed only
StatusSpec == WebhookInit /\ [][StatusNext]_vars

PurchaseSpec == Init /\ [][PurchaseNext]_vars

\* createPaymentIntent calls while the rate source answers with a bad quote
\* for AUD
BadQuoteInit ==
    /\ orders = EmptyTable
    /\ invoices = ZeroCounts /\ notifications = ZeroCounts /\ emails = ZeroCounts
    /\ hooks = [d \in Hooks |-> IdleHook]
    /\ handled = 0
    /\ paidTransitions = ZeroCounts
    /\ calls = [c \in Calls |-> IdleCall]
    /\ extInvoices = EmptyTable
    /\ auditLog = EmptyBag
    /\ rateSource = "bad quote"
    /\ price \in Prices
    /\ syncs = [o \in OrderIds |-> IdleSync]
    /\ services = ScenarioCatalog
    /\ deployment = "edge"
    /\ ZohoIdle
    /\ SafeIdle
    /\ ResolverIdle

BadQuoteSpec == BadQuoteInit /\ [][PurchaseNext]_vars

\* both purchase paths: every call goes through PaymentService or through the
\* page's own createPaymentIntent
CheckoutSpec == Init /\ [][PurchaseNext \/ PageNext]_vars

\* POSTs to the zoho-integration function, whichever of the two
\* implementations is deployed
InvoicingInit ==
    /\ orders = EmptyTable
    /\ invoices = ZeroCounts /\ notifications = ZeroCounts /\ emails = ZeroCounts
    /\ hooks = [d \in Hooks |-> IdleHook]
    /\ handled = 0
    /\ paidTransitions = ZeroCounts
    /\ calls = [c \in Calls |-> IdleCall]
    /\ extInvoices = EmptyTable
    /\ auditLog = EmptyBag
    /\ rateSource = "up"
    /\ price = 10000
    /\ syncs = [o \in OrderIds |-> IdleSync]
    /\ services = ScenarioCatalog
    /\ deployment \in Deployments
    /\ ZohoIdle
    /\ SafeIdle
    /\ ResolverIdle

InvoicingSpec == InvoicingInit /\ [][InvoicingNext]_vars

\* resolveServiceId calls of one process, over any of the catalogs
ResolveInit ==
    /\ orders = EmptyTable
    /\ invoices = ZeroCounts /\ notifications = ZeroCounts /\ emails = ZeroCounts
    /\ hooks = [d \in Hooks |-> IdleHook]
    /\ handled = 0
    /\ paidTransitions = ZeroCounts
    /\ calls = [c \in Calls |-> IdleCall]
    /\ extInvoices = EmptyTable
    /\ auditLog = EmptyBag
    /\ rateSource = "up"
    /\ price = 10000
    /\ syncs = [o \in OrderIds |-> IdleSync]
    /\ services \in Catalogs
    /\ deployment = "edge"
    /\ ZohoIdle
    /\ SafeIdle
    /\ ResolverIdle

ResolveSpec == ResolveInit /\ [][ResolveNext]_vars

\* the reconciliation paths, that is the two webhook events whose handlers
\* write orders and syncOrderStatus, over the orders earlier purchases have
\* left
ReconcileNext == PaymentNext \/ StatusNext \/ SyncNext

\* a webhook invocation that has started runs to its response
HookRuns(d) ==
    InsertReceipt(d) \/ InsertNotification(d) \/ SendEmail(d) \/ Return(d)

\* syncOrderStatus is called for the order again and again, and every call
\* runs to its end
SyncRuns(o) ==
    SyncOrderStatus(o) \/ SyncSelected(o) \/ SyncFetched(o) \/ SyncUpdated(o)

\* the orders earlier purchases have left when step 8 succeeded for order 1
\* only: every other order is stored unlinked, and the provider holds its
\* invoice
ReconcileInit ==
    /\ WebhookInit
    /\ \A o \in OrderIds \ {OrderIdOf(1)} : orders[o].zoho_invoice_id = NoId

ReconcileSpec ==
    /\ ReconcileInit /\ [][ReconcileNext]_vars
    /\ \A d \in Hooks : WF_vars(HookRuns(d))
    /\ \A o \in OrderIds : WF_vars(SyncRuns(o))

\* the purchase whose payment event the provider redelivers, and the
\* delivery in progress: the provider redelivers an event when the delivery
\* before was answered
PayingCall == 1
Delivery == 1

RedeliveryNext ==
    \/ \E c \in {PayingCall} :
          \/ Authenticate(c)
          \/ ResolveService(c)
          \/ ValidatePackage(c)
          \/ LoadProfile(c)
          \/ CalculateAmounts(c)
          \/ InsertOrder(c)
          \/ CreateZohoInvoice(c)
          \/ LinkOrder(c)
          \/ LogSuccess(c)
          \/ LogFailure(c)
    \/ \E d \in {Delivery} :
          \/ DeliverPayment(d)
          \/ InsertReceipt(d)
          \/ InsertNotification(d)
          \/ SendEmail(d)
          \/ Acknowledge(d)

\* a delivery whose UPDATE the datastore answers
DeliverAnswered(d) == DeliverPayment(d) /\ ~hooks'[d].dbError

\* a delivery that has started runs to its response and the response
\* reaches the provider
DeliveryRuns(d) ==
    InsertReceipt(d) \/ InsertNotification(d) \/ SendEmail(d) \/ Acknowledge(d)

\* a purchase and the deliveries of its invoice's payment event: the
\* provider redelivers until it gets a 2xx, every delivery runs to its
\* response, and the datastore does not fail every delivery
RedeliverySpec ==
    /\ Init /\ [][RedeliveryNext]_vars
    /\ WF_vars(DeliveryRuns(Delivery))
    /\ SF_vars(DeliverAnswered(Delivery))

\* a call that has started runs on: the datastore answers every request and
\* every wait ends
SafeRuns == SafeAttempt \/ SafeWaited

\* safeUpdate and safeInsert calls, one after the other
SafeSpec == Init /\ [][SafeNext]_vars /\ WF_vars(SafeRuns)

----------------------------------------------------------------------------
(* Claims about the webhook receiver *)

PaymentEvent == "invoice_payment_received"
StatusEvent == "invoice_status_changed"

\* C1 (as claimed): once an order's status is paid or cancelled, no webhook
\* delivery sets it back to pending.  Checked under WebhookSpec.
C1_NeverBackToPending ==
    [][\A o \in DOMAIN orders :
          orders[o].status \in {"paid", "cancelled"} => orders'[o].status # "pending"]_vars

\* C2 (as claimed): when only invoice_payment_received events are delivered,
\* an order moves into paid at most once and has at most one receipt row.
\* Checked under PaymentSpec.
C2_OnePaidOneReceipt ==
    \A o \in DOMAIN orders : paidTransitions[o] <= 1 /\ invoices[o] <= 1

\* C3 (as claimed): no webhook delivery moves a paid order to cancelled or a
\* cancelled order to paid.  Checked under WebhookSpec.
C3_PaidCancelledTerminal ==
    [][\A o \in DOMAIN orders :
          /\ orders[o].status = "paid" => orders'[o].status # "cancelled"
          /\ orders[o].status = "cancelled" => orders'[o].status # "paid"]_vars

\* C4 (as claimed): however often invoice_payment_received is delivered, an
\* order gets at most one 'Payment Confirmed' notification row and at most
\* one confirmation email.  Checked under PaymentSpec.
C4_OneNotificationOneEmail ==
    \A o \in DOMAIN orders : notifications[o] <= 1 /\ emails[o] <= 1

\* C5 (as claimed): an invoice_payment_received event whose invoice_id
\* matches no order, and whose UPDATE itself did not fail, is answered 200.
\* Checked under PaymentSpec.
C5_NoMatchAcknowledged ==
    \A d \in Hooks :
        (/\ hooks[d].pc = "respond"
         /\ hooks[d].event_type = PaymentEvent
         /\ ~hooks[d].dbError
         /\ MatchInvoice(orders, hooks[d].invoice_id) = {})
        => hooks[d].statusCode = 200

\* C6: once the UPDATE of handlePaymentReceived has returned the order, the
\* three sub-steps leave the orders table alone, and the invocation answers
\* 200 having attempted the receipt insert and the notification insert, and
\* the email whenever the order came with its clients row, whatever failed.
\* Checked under PaymentSpec.
C6_SubStepsBestEffort ==
    [][/\ \A d \in Hooks :
            (hooks[d].pc \in {"receipt", "notify", "email"} /\ hooks'[d] # hooks[d])
            => orders' = orders
       /\ \A d \in Hooks :
            (hooks'[d].pc = "respond" /\ hooks'[d].order # NoId)
            => /\ hooks'[d].statusCode = 200
               /\ {"receipt", "notification"} \subseteq hooks'[d].attempted
               /\ ("email" \in hooks'[d].attempted) <=> hooks'[d].clients]_vars

\* C6 witness: the only delivery so far marked its order paid, all three
\* sub-steps failed (no row, no mail), and the answer is 200
C6_AllSubStepsFailed ==
    \E d \in Hooks :
        /\ hooks[d].pc = "respond" /\ hooks[d].statusCode = 200
        /\ hooks[d].order # NoId /\ hooks[d].clients
        /\ hooks[d].attempted = {"receipt", "notification", "email"}
        /\ handled = 1
        /\ orders[hooks[d].order].status = "paid"
        /\ invoices[hooks[d].order] = 0
        /\ notifications[hooks[d].order] = 0
        /\ emails[hooks[d].order] = 0

\* the table of section 4.4: paid -> paid, cancelled -> cancelled, anything
\* else -> pending
TableStatus(status) ==
    IF status = "paid" THEN "paid"
    ELSE IF status = "cancelled" THEN "cancelled"
    ELSE "pending"

\* C7: an invoice_status_changed delivery whose UPDATE succeeds leaves every
\* order of its invoice with paid for 'paid', cancelled for 'cancelled' and
\* pending for every other status value, so it writes paid only for 'paid'.
\* Checked under StatusSpec.
C7_StatusMapping ==
    [][\A d \in Hooks :
          (/\ hooks[d].pc = "idle"
           /\ hooks'[d].event_type = StatusEvent
           /\ ~hooks'[d].dbError)
          => \A o \in MatchInvoice(orders, hooks'[d].invoice_id) :
                /\ orders'[o].status = TableStatus(hooks'[d].status)
                /\ orders'[o].status = "paid" => hooks'[d].status = "paid"]_vars

\* C7 witness: a delivery with a status the switch does not list (or none)
\* has put an order that was paid back to pending
C7_UnknownStatusPending ==
    \E d \in Hooks :
        /\ hooks[d].pc = "respond" /\ hooks[d].event_type = StatusEvent
        /\ hooks[d].status \in {"void", "undefined"}
        /\ hooks[d].statusCode = 200
        /\ \E o \in MatchInvoice(orders, hooks[d].invoice_id) :
              orders[o].status = "pending" /\ paidTransitions[o] = 1

----------------------------------------------------------------------------
(* Claims about createPaymentIntent, checked under PurchaseSpec *)

\* the amount column of the currency the caller chose
ChosenAmount(row) ==
    CASE row.currency = "USD" -> row.amount_usd
      [] row.currency = "INR" -> row.amount_inr
      [] OTHER                -> row.amount_aud

\* C8: a call inserts at most one order and requests at most one invoice,
\* requests it only once its own order is stored, and has done exactly one
\* of each when it returns.
C8_OneOrderOneInvoice ==
    \A c \in Calls :
        /\ calls[c].inserts <= 1 /\ calls[c].zohoRequests <= 1
        /\ calls[c].zohoRequests = 1
           => calls[c].inserts = 1 /\ calls[c].order \in DOMAIN orders
        /\ calls[c].pc = "returned"
           => /\ calls[c].inserts = 1 /\ calls[c].zohoRequests = 1
              /\ calls[c].invoice_id \in DOMAIN extInvoices
              /\ extInvoices[calls[c].invoice_id].order = calls[c].order

\* C8 witness: a call has returned after one insert and one invoice request
C8_Returned ==
    \E c \in Calls :
        /\ calls[c].pc = "returned"
        /\ calls[c].inserts = 1 /\ calls[c].zohoRequests = 1
        /\ calls[c].order \in DOMAIN orders

\* C9 (as claimed): when a call has returned, its order is pending, the
\* amount in the chosen currency equals totalPrice, and zoho_invoice_id is
\* non-null and equal to the returned invoice_id.
C9_ReturnedOrderLinked ==
    \A c \in Calls :
        calls[c].pc = "returned"
        => LET row == orders[calls[c].order]
           IN  /\ row.status = "pending"
               /\ ChosenAmount(row) = calls[c].totalPrice
               /\ row.zoho_invoice_id # NoId
               /\ row.zoho_invoice_id = calls[c].invoice_id

\* C9 (amended): when a call has returned, its order still has the status
\* pending it was inserted with; the amount in the chosen currency is
\* totalPrice rounded to two decimals, or all three amounts are the
\* unrounded totalPrice (a conversion threw); zoho_invoice_id equals the
\* returned invoice_id if the step-8 update succeeded and is null if not.
C9_ReturnedOrderAsWritten ==
    \A c \in Calls :
        calls[c].pc = "returned"
        => LET row == orders[calls[c].order]
               tp == calls[c].totalPrice
           IN  /\ row.status = "pending"
               /\ row.currency = calls[c].currency
               /\ \/ ChosenAmount(row) = toFixed2(tp)
                  \/ row.amount_usd = tp /\ row.amount_inr = tp /\ row.amount_aud = tp
               /\ calls[c].invoice_id # NoId
               /\ row.zoho_invoice_id =
                     IF calls[c].linkFailed THEN NoId ELSE calls[c].invoice_id

\* C9 witness: the scenario purchase (10.000 USD) has returned with its
\* order pending, amount_usd 10.000 and the invoice linked
C9_ScenarioReturned ==
    \E c \in Calls :
        /\ calls[c].pc = "returned" /\ ~calls[c].linkFailed
        /\ calls[c].currency = "USD" /\ calls[c].totalPrice = 10000
        /\ orders[calls[c].order].status = "pending"
        /\ orders[calls[c].order].amount_usd = 10000
        /\ orders[calls[c].order].zoho_invoice_id = calls[c].invoice_id

\* C10: a call whose step-8 update failed goes on to return (it never takes
\* the failure path), its order stays stored with status pending, and the
\* invoice it obtained stays with the provider as issued.
C10_LinkFailureKeepsAll ==
    \A c \in Calls :
        calls[c].linkFailed
        => /\ calls[c].pc \in {"audit", "returned"}
           /\ calls[c].error = "none"
           /\ calls[c].invoice_id # NoId
           /\ calls[c].order \in DOMAIN orders
           /\ orders[calls[c].order].status = "pending"
           /\ calls[c].invoice_id \in DOMAIN extInvoices
           /\ extInvoices[calls[c].invoice_id].status = "sent"

\* C10 witness: a call has returned although its step-8 update failed; the
\* order is stored unlinked
C10_ReturnedUnlinked ==
    \E c \in Calls :
        /\ calls[c].pc = "returned" /\ calls[c].linkFailed
        /\ orders[calls[c].order].zoho_invoice_id = NoId
        /\ calls[c].invoice_id \in DOMAIN extInvoices

\* the call has failed, or is on its way through the catch block, with this
\* error
FailsWith(c, err) ==
    calls[c].pc \in {"failing", "failed"} /\ calls[c].error = err

\* the call has inserted no order and made no invoicing request, and neither
\* its order nor its invoice exists
NothingCreated(c) ==
    /\ calls[c].inserts = 0 /\ calls[c].zohoRequests = 0
    /\ calls[c].order = NoId
    /\ OrderIdOf(c) \notin DOMAIN orders
    /\ InvoiceIdOf(c) \notin DOMAIN extInvoices

\* C12: a call that gets to the pricing check of step 3 with a packageType
\* the loaded service has no price for fails with the invalid-package error,
\* inserts no order and makes no invoicing call.
C12_InvalidPackageFails ==
    \A c \in Calls :
        calls[c].priced = "no" => FailsWith(c, "InvalidPackage") /\ NothingCreated(c)

\* C12 witness: a call for a package the service has no price for has
\* failed with the invalid-package error
C12_InvalidPackageFailed ==
    \E c \in Calls :
        /\ calls[c].priced = "no" /\ calls[c].pc = "failed"
        /\ calls[c].error = "InvalidPackage"
        /\ OrderIdOf(c) \notin DOMAIN orders

\* C13: a call whose serviceIdentifier, when step 2 resolves it, is neither
\* the id of a service nor a key of the alias map fails with the
\* service-not-found error, and creates no order row and no invoice.
C13_UnknownServiceFails ==
    \A c \in Calls :
        calls[c].resolvable = "no"
        => FailsWith(c, "ServiceNotFound") /\ NothingCreated(c)

\* C13 witness: a call for an identifier that names no service has failed
\* with the service-not-found error, and its order does not exist
C13_UnknownServiceFailed ==
    \E c \in Calls :
        /\ calls[c].resolvable = "no" /\ calls[c].pc = "failed"
        /\ calls[c].error = "ServiceNotFound"
        /\ OrderIdOf(c) \notin DOMAIN orders
        /\ InvoiceIdOf(c) \notin DOMAIN extInvoices

\* C14 (as claimed): on neither purchase path does a caller who is
\* unauthenticated, or whose email is unverified, get an order inserted or
\* an invoice created.  Checked under CheckoutSpec.
C14_NoOrderWithoutVerifiedUser ==
    \A c \in Calls :
        calls[c].user \in {"none", "unverified"} => NothingCreated(c)

\* the purchase_audit_log rows whose details.transaction_id is the given one
\* and whose action is the given one, counted
AuditEntries(transactionId, action) ==
    LET rows == {e \in BagToSet(auditLog) :
                    e.transaction_id = transactionId /\ e.action = action}
    IN  BagCardinality([e \in rows |-> auditLog[e]])

\* C15 (as claimed): a createPaymentIntent call that failed has exactly one
\* payment_intent_failed entry with its transactionId in purchase_audit_log,
\* and a call that returned has exactly one payment_intent_created entry.
C15_ExactlyOneAuditEntry ==
    \A c \in Calls :
        /\ calls[c].pc = "failed" => AuditEntries(c, "payment_intent_failed") = 1
        /\ calls[c].pc = "returned" => AuditEntries(c, "payment_intent_created") = 1

\* C26 (as claimed): every row of orders has amount_usd, amount_inr and
\* amount_aud strictly positive, whatever the conversions gave.
C26_AmountsPositive ==
    \A o \in DOMAIN orders :
        /\ orders[o].amount_usd > 0
        /\ orders[o].amount_inr > 0
        /\ orders[o].amount_aud > 0

ChosenOf(amounts, currency) ==
    CASE currency = "USD" -> amounts.usd
      [] currency = "INR" -> amounts.inr
      [] OTHER            -> amounts.aud

\* the call has its amounts and is about to insert the order
HasAmounts(c) == calls[c].pc = "insert"

\* C28 (as claimed): the amount calculateCurrencyAmounts gives for the chosen
\* currency equals the caller's totalPrice.
C28_ChosenAmountIsTotalPrice ==
    \A c \in Calls :
        HasAmounts(c) =>
            ChosenOf(calls[c].amounts, calls[c].currency) = calls[c].totalPrice

\* C28 (amended): the amount for the chosen currency is never converted: it
\* is totalPrice rounded to two decimals, the same for every quote of the
\* rate source, and the unrounded totalPrice when a conversion threw.
C28_ChosenAmountRounded ==
    \A c \in Calls :
        HasAmounts(c) =>
            /\ ChosenOf(calls[c].amounts, calls[c].currency) =
                  IF rateSource = "throws" THEN calls[c].totalPrice
                  ELSE toFixed2(calls[c].totalPrice)
            /\ \A source \in {"up", "down", "bad quote"} :
                  ChosenOf(calculateCurrencyAmounts(calls[c].totalPrice,
                                                    calls[c].currency, source),
                           calls[c].currency) = toFixed2(calls[c].totalPrice)

\* C28 witness: 10.004 INR was passed while the rate source answers, and the
\* INR amount is 10.00 beside converted USD and AUD amounts
C28_RoundedInr ==
    \E c \in Calls :
        /\ HasAmounts(c) /\ rateSource = "up"
        /\ calls[c].currency = "INR" /\ calls[c].totalPrice = 10004
        /\ calls[c].amounts.inr = 10000
        /\ calls[c].amounts.usd # calls[c].amounts.inr

\* the conversion fails while the behaviour lasts: the rate source is down
\* and convertCurrency falls back, or the convertCurrency call rejects
ConversionFails == rateSource \in {"down", "throws"}

\* the same amount in all three currencies
AllThree(amount) == [usd |-> amount, inr |-> amount, aud |-> amount]

\* C29 (as claimed): when currency conversion fails the call goes on to the
\* order insert with the unconverted totalPrice as the amount in all three
\* currencies.
C29_UnconvertedInAllThree ==
    \A c \in Calls :
        (HasAmounts(c) /\ ConversionFails) =>
            calls[c].amounts = AllThree(calls[c].totalPrice)

\* C29 (amended): step 5 never fails the call when conversion fails: the
\* call goes on to the order insert, with the unconverted totalPrice in all
\* three currencies when convertCurrency rejected, and with totalPrice
\* rounded to two decimals in all three when convertCurrency fell back.
C29_FailedConversionGoesOnToInsert ==
    [][\A c \in Calls :
          (ConversionFails /\ calls[c].pc = "amounts" /\ calls'[c] # calls[c]) =>
              /\ calls'[c].pc = "insert"
              /\ calls'[c].error = calls[c].error
              /\ calls'[c].amounts =
                    IF rateSource = "throws"
                    THEN AllThree(calls'[c].totalPrice)
                    ELSE AllThree(toFixed2(calls'[c].totalPrice))]_vars

\* C29 witness: 10.004 USD was passed while the rate source is down, and the
\* call is about to insert an order of 10.00 in all three currencies
C29_FallbackAmounts ==
    \E c \in Calls :
        /\ HasAmounts(c) /\ rateSource = "down"
        /\ calls[c].currency = "USD" /\ calls[c].totalPrice = 10004
        /\ calls[c].amounts = AllThree(10000)

\* the rows of the orders table that a step leaves as they were
RowsKept(ids) == \A o \in ids : o \in DOMAIN orders' /\ orders'[o] = orders[o]

\* the calls that inserted an order row
Inserted == {c \in Calls : calls[c].order # NoId}

\* C30: concurrent createPaymentIntent calls for the same service each
\* insert their own order row, and the step-8 linking update of a call
\* writes only the row that call inserted, in every interleaving: the insert
\* of a call adds one new row that no other call holds and leaves every
\* other row alone, and the linking update leaves alone every row but the
\* call's own, which gets the provider ids of that call.
C30_EachCallWritesItsOwnRow ==
    [][\A c \in Calls :
          /\ (calls[c].pc = "insert" /\ calls'[c] # calls[c]) =>
                /\ RowsKept(DOMAIN orders)
                /\ calls'[c].order # NoId =>
                      /\ DOMAIN orders' = DOMAIN orders \cup {calls'[c].order}
                      /\ calls'[c].order \notin DOMAIN orders
                      /\ \A d \in Calls \ {c} : calls'[d].order # calls'[c].order
                /\ calls'[c].order = NoId => DOMAIN orders' = DOMAIN orders
          /\ (calls[c].pc = "link" /\ calls'[c] # calls[c]) =>
                /\ DOMAIN orders' = DOMAIN orders
                /\ RowsKept(DOMAIN orders \ {calls[c].order})
                /\ orders'[calls[c].order].zoho_invoice_id
                      \in {orders[calls[c].order].zoho_invoice_id, calls[c].invoice_id}]_vars

\* C30 witness: two calls for the same service have both run their linking
\* update, and each row carries the invoice id of the call that inserted it
C30_TwoLinkedRowsOfOneService ==
    \E c, d \in Inserted :
        /\ c # d
        /\ calls[c].pc = "returned" /\ calls[d].pc = "returned"
        /\ calls[c].order # calls[d].order
        /\ orders[calls[c].order].service_id = orders[calls[d].order].service_id
        /\ orders[calls[c].order].zoho_invoice_id = calls[c].invoice_id
        /\ orders[calls[d].order].zoho_invoice_id = calls[d].invoice_id
        /\ calls[c].invoice_id # calls[d].invoice_id

----------------------------------------------------------------------------
(* Claims about the zoho-integration function, checked under InvoicingSpec *)

\* the invocation has answered with a failure
Failed(i) == invocations[i].pc = "responded" /\ ~invocations[i].response.success

\* two failed invocations of the same class: the same request, and the same
\* step failed on the same status after the same outcome of the customer
\* creation; only the bodies of the provider's answers may differ
SameFailure(i, j) ==
    /\ Failed(i) /\ Failed(j)
    /\ invocations[i].request = invocations[j].request
    /\ invocations[i].email = invocations[j].email
    /\ invocations[i].creation = invocations[j].creation
    /\ invocations[i].failure = invocations[j].failure

\* C16 (as claimed): the message createPaymentIntent fails with depends only
\* on the class of the failure: two invocations that differ only in the body
\* of the provider's error response give the same message.
C16_MessageIndependentOfBody ==
    \A i, j \in Invocations :
        SameFailure(i, j) =>
            createZohoInvoiceMessage(invocations[i].response)
                = createZohoInvoiceMessage(invocations[j].response)

\* the invocation has obtained a customer
HasCustomer(i) == invocations[i].customer # NoId

C18_Permanent4xxTerminal ==
    \A i \in Invocations :
        invocations[i].creation \in {"400", "401"} =>
            /\ invocations[i].lookups = 0
            /\ invocations[i].invoicePosts = 0
            /\ \A v \in zohoInvoices : v.by # i

\* the fixed texts of the errors reported for a token request that timed
\* out or was answered with a 5xx
TransientTokenTexts ==
    {TokenError(deployment, r).text :
        r \in {e \in ErrorResponses : e.status \in {"500", "timeout"}}}

\* C19 (as claimed): an invocation whose token request was answered 400 or
\* 401 made exactly one token request and no customer, lookup or invoice
\* request, and the error it reports is of another kind than the error
\* reported for timeouts and 5xx answers.
C19_TokenRejectionIsConfigurationError ==
    \A i \in Invocations :
        invocations[i].failure.step = "token"
            /\ invocations[i].failure.status \in {"400", "401"}
        => /\ invocations[i].tokenRequests = 1
           /\ invocations[i].customerPosts = 0 /\ invocations[i].lookups = 0
           /\ invocations[i].invoicePosts = 0
           /\ invocations[i].response.error.text \notin TransientTokenTexts

----------------------------------------------------------------------------
(* Claims about ServiceManager.resolveServiceId, checked under ResolveSpec *)

\* C20 (as claimed): resolveServiceId(entry.id) returns entry.id for every
\* entry of the catalog, whatever form the id has.  Stated for the calls
\* that met no datastore error and no change of the catalog.
C20_ResolveIdIsIdentity ==
    \A r \in Resolutions :
        /\ resolutions[r].pc = "done"
        /\ ~resolutions[r].error /\ ~resolutions[r].changed
        /\ resolutions[r].identifier \in CatalogIds(services)
        => resolutions[r].result = resolutions[r].identifier

\* C21: a call whose identifier has the UUID shape never goes to
\* createServiceMapping, and when no catalog entry has that id it returns
\* null, whether or not an alias map is cached.
C21_UuidNotFoundSkipsMapping ==
    \A r \in Resolutions :
        resolutions[r].identifier \in UuidShaped =>
            /\ ~resolutions[r].viaMapping
            /\ resolutions[r].pc # "listing"
            /\ (/\ resolutions[r].pc = "done" /\ ~resolutions[r].changed
                /\ resolutions[r].identifier \notin CatalogIds(services))
               => resolutions[r].result = Null

\* C21 witness: with an alias map cached, a call for a UUID-shaped
\* identifier that is the id of no entry has returned null
C21_UnknownUuidNotFound ==
    \E r \in Resolutions :
        /\ serviceMappingCache.cached
        /\ DOMAIN serviceMappingCache.mapping # {}
        /\ resolutions[r].pc = "done" /\ resolutions[r].identifier = "uuid-z"
        /\ ~resolutions[r].error /\ ~resolutions[r].changed
        /\ resolutions[r].result = Null

\* a call that went through the alias map has its result, met no datastore
\* error, and the services table has not changed since the map it read was
\* built
AliasResolved(r) ==
    /\ resolutions[r].pc = "done" /\ resolutions[r].viaMapping
    /\ ~resolutions[r].error /\ ~resolutions[r].changed

\* the id the rules of createServiceMapping give an alias over a catalog
AliasTarget(rows, alias) ==
    LET mapping == MapServices(EmptyMapping, rows)
    IN  IF alias \in DOMAIN mapping THEN mapping[alias] ELSE Null

\* C22: for an unchanged catalog and a datastore that answers, a resolution
\* of an alias returns the id of the service the alias is mapped to, from
\* the cached map as well as from a map rebuilt after clearCache; so a call
\* made before a clearCache and one made after it return the same id.
C22_AliasStableAcrossClear ==
    /\ \A r \in Resolutions :
          AliasResolved(r) =>
              resolutions[r].result = AliasTarget(services, resolutions[r].identifier)
    /\ \A r1, r2 \in Resolutions :
          AliasResolved(r1) /\ AliasResolved(r2)
              /\ resolutions[r1].identifier = resolutions[r2].identifier
          => resolutions[r1].result = resolutions[r2].result

\* C22 witness: a call resolved a known alias, clearCache was called, and a
\* second call for the same alias rebuilt the map and returned the same id
C22_SameIdAfterClear ==
    \E r1, r2 \in Resolutions :
        /\ AliasResolved(r1) /\ AliasResolved(r2)
        /\ resolutions[r1].clearedAfter /\ ~resolutions[r2].clearedAfter
        /\ serviceMappingCache.cached
        /\ resolutions[r1].identifier = "ssl-setup"
        /\ resolutions[r2].identifier = "ssl-setup"
        /\ resolutions[r1].result # Null
        /\ resolutions[r2].result = resolutions[r1].result

\* C23: whatever the datastore answers, a call of resolveServiceId ends by
\* returning: a call that met an error on the id lookup or on the catalog
\* listing returns null, and every result is null or one of the ids the
\* caller can be given (the identifier itself, or an id of the alias map).
C23_ErrorsReturnNull ==
    \A r \in Resolutions :
        resolutions[r].pc = "done" =>
            /\ resolutions[r].error => resolutions[r].result = Null
            /\ resolutions[r].result \in
                  {Null, resolutions[r].identifier}
                      \cup UNION {CatalogIds(rows) : rows \in Catalogs}

\* C23 witness: an id lookup and a catalog listing both met an error, for an
\* id and an alias the catalog has, and both calls returned null
C23_BothErrorsNull ==
    \E r1, r2 \in Resolutions :
        /\ resolutions[r1].pc = "done" /\ resolutions[r1].error
        /\ resolutions[r1].identifier = "uuid-a" /\ "uuid-a" \in CatalogIds(services)
        /\ resolutions[r1].result = Null
        /\ resolutions[r2].pc = "done" /\ resolutions[r2].error
        /\ resolutions[r2].identifier = "ssl-setup"
        /\ AliasTarget(services, "ssl-setup") # Null
        /\ resolutions[r2].result = Null

\* the rules a name satisfies other than the first one in the order of the
\* code
LaterRules(name) ==
    {q \in NameRules(name) : \E f \in NameRules(name) : f < q}

\* C24 (as claimed): in a map built from the current catalog, an entry whose
\* name satisfies several rules has the keys of the first of them only: no
\* key of a later rule is mapped to the entry.
C24_FirstMatchWins ==
    serviceMappingCache.cached /\ ~serviceMappingCache.stale =>
        \A k \in DOMAIN services :
            \A q \in LaterRules(services[k].name) :
                \A key \in RuleKeys(q) :
                    key \in DOMAIN serviceMappingCache.mapping =>
                        serviceMappingCache.mapping[key] # services[k].id

\* C25 (as claimed): once an alias map is cached, the ids it gives stay the
\* same through catalog changes and calls: a step leaves the cached map as
\* it is, unless the step is clearCache.
C25_CachedUntilCleared ==
    [][serviceMappingCache.cached =>
          \/ /\ serviceMappingCache'.cached
             /\ serviceMappingCache'.mapping = serviceMappingCache.mapping
          \/ serviceMappingCache' = NoCache]_vars

----------------------------------------------------------------------------
(* Claims about reconciliation, checked under ReconcileSpec *)

\* C11 (as claimed): an order that step 8 left unlinked, and whose invoice
\* the provider holds, eventually has its zoho_invoice_id set by webhook
\* handling or by syncOrderStatus.
C11_EventuallyLinked ==
    \A o \in OrderIds :
        (/\ o \in DOMAIN orders
         /\ orders[o].zoho_invoice_id = NoId
         /\ \E i \in DOMAIN extInvoices : extInvoices[i].order = o)
        ~> (orders[o].zoho_invoice_id # NoId)

\* C31 (as claimed): syncOrderStatus on an order that is already paid or
\* cancelled never sets its status to pending, whatever the invoicing
\* endpoint returned: the update of a sync call leaves a terminal status
\* other than pending.
C31_SyncKeepsTerminal ==
    [][\A o \in DOMAIN orders :
          (syncs[o].pc = "update" /\ syncs'[o].pc = "idle"
              /\ orders[o].status \in {"paid", "cancelled"})
          => orders'[o].status # "pending"]_vars

\* the calls whose step 7 threw after the order insert
InvoicingFailed == {c \in Calls : calls[c].error = "ZohoIntegrationFailed"}

\* C32: no step deletes an order: the stored orders of a state are stored
\* in the next, so their number never decreases; and when invoicing (step
\* 7) fails after the order insert, the call ends in failure while its
\* order stays stored, pending and without an invoice id.
C32_OrdersNeverDeleted ==
    [][/\ DOMAIN orders \subseteq DOMAIN orders'
       /\ Cardinality(DOMAIN orders') >= Cardinality(DOMAIN orders)
       /\ \A c \in Calls :
             calls'[c].error = "ZohoIntegrationFailed" =>
                /\ calls'[c].pc \in {"failing", "failed"}
                /\ calls'[c].order \in DOMAIN orders'
                /\ orders'[calls'[c].order].status = "pending"
                /\ orders'[calls'[c].order].zoho_invoice_id = NoId]_vars

\* C32 witness: a call has reported the failure of its invoicing, its order
\* is stored unlinked, and the other call has inserted an order since
C32_OrderKeptAfterFailedInvoicing ==
    \E c \in InvoicingFailed :
        /\ calls[c].pc = "failed"
        /\ calls[c].order \in DOMAIN orders
        /\ orders[calls[c].order].zoho_invoice_id = NoId
        /\ Cardinality(DOMAIN orders) = 2

\* the invocation is past the update of handlePaymentReceived, at one of the
\* three things it produces
Producing(h) == h.pc \in {"receipt", "notify", "email"}

\* C33: handlePaymentReceived produces a receipt row, a notification row and
\* a confirmation email only after its update to paid has succeeded and
\* returned the order: an invocation goes on to them only with the order of
\* its invoice, now paid, and each of the three is made by such an
\* invocation for its order; when the update returns an error the
\* invocation responds 500 and none of the three is produced.
C33_ProducesOnlyAfterPaidUpdate ==
    [][/\ \A d \in Hooks :
             (hooks[d].pc = "idle" /\ hooks'[d].event_type = "invoice_payment_received") =>
                /\ invoices' = invoices /\ notifications' = notifications
                /\ emails' = emails
                /\ IF Producing(hooks'[d])
                   THEN /\ ~hooks'[d].dbError
                        /\ ~Single(MatchInvoice(orders, hooks'[d].invoice_id)).error
                        /\ hooks'[d].order \in DOMAIN orders'
                        /\ orders'[hooks'[d].order].status = "paid"
                        /\ orders'[hooks'[d].order].zoho_invoice_id = hooks'[d].invoice_id
                   ELSE /\ hooks'[d].pc = "respond" /\ hooks'[d].attempted = {}
                        /\ (hooks'[d].dbError
                               \/ Single(MatchInvoice(orders, hooks'[d].invoice_id)).error)
                           => hooks'[d].statusCode = 500
       /\ \A o \in OrderIds :
             /\ invoices'[o] > invoices[o] =>
                   \E d \in Hooks : hooks[d].pc = "receipt" /\ hooks[d].order = o
             /\ notifications'[o] > notifications[o] =>
                   \E d \in Hooks : hooks[d].pc = "notify" /\ hooks[d].order = o
             /\ emails'[o] > emails[o] =>
                   \E d \in Hooks : hooks[d].pc = "email" /\ hooks[d].order = o]_vars

\* C33 witness: one delivery has produced all three for its paid order and
\* responded 200, and another, whose update returned an error, has responded
\* 500 having produced nothing
C33_ProducedAndRefused ==
    \E d, e \in Hooks :
        /\ hooks[d].pc = "respond" /\ hooks[d].statusCode = 200
        /\ hooks[d].attempted = {"receipt", "notification", "email"}
        /\ invoices[hooks[d].order] = 1 /\ notifications[hooks[d].order] = 1
        /\ emails[hooks[d].order] = 1
        /\ hooks[e].pc = "respond" /\ hooks[e].statusCode = 500 /\ hooks[e].dbError
        /\ hooks[e].attempted = {}

\* the event types the handler routes to a function that writes
RoutedEvents == {"invoice_payment_received", "invoice_status_changed"}

\* the invocation d takes the step
Steps(d) == hooks'[d] # hooks[d]

\* C34: a webhook invocation never changes an order whose zoho_invoice_id
\* differs from the event's invoice_id (or is null); an invocation rejected
\* as structurally invalid, or carrying an event type other than
\* invoice_payment_received and invoice_status_changed, changes no order,
\* no receipt and no notification; and the steps after the update change no
\* order.
C34_OnlyTheEventsOrder ==
    [][\A d \in Hooks :
          Steps(d) =>
             /\ \A o \in DOMAIN orders :
                   (orders[o].zoho_invoice_id = NoId
                       \/ orders[o].zoho_invoice_id # hooks'[d].invoice_id
                       \/ hooks[d].pc # "idle")
                   => (o \in DOMAIN orders' /\ orders'[o] = orders[o])
             /\ DOMAIN orders' = DOMAIN orders
             /\ (hooks[d].pc = "idle" /\ hooks'[d].event_type \notin RoutedEvents) =>
                   /\ orders' = orders /\ invoices' = invoices
                   /\ notifications' = notifications /\ emails' = emails
                   /\ hooks'[d].pc = "respond"
             /\ (hooks[d].pc # "idle" /\ hooks[d].event_type \notin RoutedEvents) =>
                   /\ orders' = orders /\ invoices' = invoices
                   /\ notifications' = notifications /\ emails' = emails]_vars

\* C34 witness: an invoice_status_changed delivery has cancelled the order of
\* its invoice while an order linked to another invoice is still pending, and
\* a structurally invalid delivery has been answered 500
C34_OtherOrderUntouched ==
    \E d, e \in Hooks : \E o, p \in DOMAIN orders :
        /\ hooks[d].pc = "respond" /\ hooks[d].event_type = "invoice_status_changed"
        /\ hooks[d].status = "cancelled"
        /\ orders[o].zoho_invoice_id = hooks[d].invoice_id
        /\ orders[o].status = "cancelled"
        /\ orders[p].zoho_invoice_id \notin {NoId, hooks[d].invoice_id}
        /\ orders[p].status = "pending"
        /\ hooks[e].pc = "respond" /\ hooks[e].event_type = "invalid"
        /\ hooks[e].statusCode = 500

\* step 8 has linked the order of the invoice to it
Linked(i) ==
    /\ extInvoices[i].order \in DOMAIN orders
    /\ orders[extInvoices[i].order].zoho_invoice_id = i

C36_InvoiceAfterCustomerOrNoCall ==
    \A i \in Invocations :
        /\ invocations[i].invoicePosts > 0 =>
              /\ invocations[i].customer # NoId
              /\ \A v \in zohoInvoices :
                    v.by = i => v.customer_id = invocations[i].customer
        /\ invocations[i].request \in {"no_email", "no_items"} =>
              /\ invocations[i].customerPosts = 0
              /\ invocations[i].lookups = 0
              /\ invocations[i].invoicePosts = 0

\* a call whose build of the alias map failed on the catalog listing has
\* returned null, and clearCache has not been called since
BuildFailed(r) ==
    /\ resolutions[r].pc = "done" /\ resolutions[r].viaMapping
    /\ resolutions[r].error /\ ~resolutions[r].clearedAfter

\* the call r gets its result in this step
Resolves(r) == resolutions[r].pc # "done" /\ resolutions'[r].pc = "done"

\* C37: a failed build of the alias map is never cached: the step in which
\* the listing fails leaves serviceMappingCache as it was and returns null,
\* and a resolution of an alias that ends after a build has failed, with the
\* catalog readable and no clearCache in between, returns the id the
\* catalog gives the alias.
C37_FailedBuildNotCached ==
    [][/\ \A r \in Resolutions :
             (resolutions[r].pc = "listing" /\ Resolves(r) /\ resolutions'[r].error) =>
                /\ serviceMappingCache' = serviceMappingCache
                /\ resolutions'[r].result = Null
       /\ \A r1, r2 \in Resolutions :
             (/\ r1 # r2 /\ BuildFailed(r1)
              /\ Resolves(r2) /\ resolutions'[r2].viaMapping
              /\ ~resolutions'[r2].error /\ ~resolutions'[r2].changed)
             => resolutions'[r2].result =
                   AliasTarget(services, resolutions'[r2].identifier)]_vars

\* C37 witness: the build of one call failed; the services table was
\* changed after that, and a call for the same known alias has since
\* returned the id the changed catalog gives it, from a map built after the
\* change, with no clearCache in between
C37_ResolvedAfterFailedBuild ==
    \E r1, r2 \in Resolutions :
        /\ BuildFailed(r1) /\ resolutions[r1].identifier = "ssl-setup"
        /\ resolutions[r1].result = Null
        /\ AliasResolved(r2) /\ ~resolutions[r2].clearedAfter
        /\ resolutions[r1].changed /\ ~serviceMappingCache.stale
        /\ resolutions[r2].identifier = "ssl-setup"
        /\ resolutions[r2].result # Null
        /\ resolutions[r2].result = AliasTarget(services, "ssl-setup")
        /\ serviceMappingCache.cached

\* the classes handleDatabaseError gives canRetry false
NonRetryable == {"SYSTEM_TRIGGER", "MISSING_COLUMN", "PERMISSION_DENIED", "RLS_VIOLATION"}

====
